---------------------------- MODULE Spec2Model ----------------------------
(***************************************************************************)
(* LockBox (src/LockBox/src/lbox.py), host-native (Linux) backend:         *)
(* the state store, the CLI commands run / stop / rm, the supervisor       *)
(* (internal-daemon), the host service adapter (systemd unit with          *)
(* Restart=always) and the mounts under a container root; and the compose  *)
(* command create up (src/LockBox/src/lbox_create.py) with its start order.*)
(*                                                                         *)
(* Every process is cut at its file-system and process operations: a       *)
(* load_state, a save_state, a mount, a spawn is one step, and the steps   *)
(* of different processes interleave freely (the store has no locking).    *)
(***************************************************************************)
EXTENDS Integers, Sequences, FiniteSets, TLC

\* ------------------------------------------------------------------ bounds
MaxContainers == 2      \* container ids run can hand out when two CLI processes race
MaxLifeContainers == 1  \* container ids run can hand out in the lifecycle specification
MaxCommands   == 3      \* CLI commands issued in one behaviour
MaxSups       == 3      \* supervisor processes ever started
MaxExecs      == 2      \* entrypoint executions (loop iterations) of one container
MaxServices   == 3      \* services of a manifest given to _service_start_order
MaxUpServices == 2      \* services of a manifest that create up starts
MaxUps        == 2      \* create up commands run one after the other

\* ------------------------------------------------------------- value sets
Null == "null"                          \* Python None
CidSeq == [i \in 1..MaxContainers |-> IF i = 1 THEN "c1" ELSE IF i = 2 THEN "c2" ELSE "c3"]
CIDs == {CidSeq[i] : i \in 1..MaxContainers}
Names == {"web"}
Procs == {"cli1", "cli2"}               \* concurrently running CLI processes
Policies == {"no", "always", "on-failure", "unless-stopped"}
HostPort == "8080:80"
Volume == "/host/data:/data"
ExitCodes == {0, 1}

\* ---------------------------------------------------------------- state
VARIABLES
    state,      \* STATE_DIR: container id -> record  (file <id>.json)
    roots,      \* CONTAINERS_DIR: ids whose root directory exists
    bindDepth,  \* id -> bind mounts stacked on the volume target under the root
    procDepth,  \* id -> proc mounts stacked on <root>/proc
    units,      \* systemd: service name -> [cid, active]
    nextCid,    \* index of the next fresh id (uuid4)
    cli,        \* CLI process -> its position and locals
    sups,       \* supervisor processes started so far (sequence)
    nCmds,      \* CLI commands issued so far
    execs,      \* id -> times the entrypoint has been executed
    stage,      \* id -> CLI commands completed on it in order: run, stop, rm
    up,         \* the create up command (lbox_create.py): manifest, position, locals
    restart,    \* the restart command: position, the configuration it took from the record
    down,       \* the create down command: manifest, options, position
    images,     \* IMAGES_DIR: image tag -> the artifacts stored for it
    build,      \* the build command: tag, position, outcome
    monitor,    \* the auto-update monitor (monitor_daemon): manifest, last_state, position
    profile,    \* id -> the export lines of <root>/etc/profile
    hostFiles,  \* the files of the host directory of Volume are still there
    pid_file,   \* monitor_<project>.pid: the PID written in it, 0 when the file does not exist
    monitors,   \* the monitor processes spawned so far: PID -> it is alive
    context,    \* a build context: its instruction files, what build and the monitor took
    network,    \* the network set-up of up: backend, position, locals
    etc_hosts   \* service -> the entries appended to /etc/hosts of its container

disk == <<state, roots, bindDepth, procDepth>>
\* what lies outside the record store: the profile inside each root and the
\* host directory the volumes bind
\* the project's monitor processes and their PID file
compose == <<pid_file, monitors>>
\* what the build context and the network set-up of up work on
local == <<context, network, etc_hosts>>
host == <<profile, hostFiles, compose, local>>
\* what the commands other than run / stop / rm / create up keep
cmds == <<restart, down, images, build, monitor>>
vars == <<state, roots, bindDepth, procDepth, units, nextCid, cli, sups, nCmds, execs, stage, up,
          restart, down, images, build, monitor, profile, hostFiles, pid_file, monitors,
          context, network, etc_hosts>>

\* The image the containers are run from, and its sidecar <image>.json as
\* build wrote it from the instruction file (START serve, DIR /app).
Image == "app"
ImageMeta == [cmd |-> "serve", workdir |-> "/app"]

\* LinuxEngine.run, lines 769-775: without a command the sidecar gives the
\* command and the working directory; with one the working directory is "/"
Command(cmd) ==
    IF cmd # Null THEN cmd
    ELSE IF ImageMeta.cmd # Null THEN ImageMeta.cmd ELSE "/bin/sh"

Workdir(cmd) == IF cmd # Null THEN "/" ELSE ImageMeta.workdir

\* A container record as LinuxEngine.run writes it (the fields the
\* lifecycle reads), plus 'mounts', which the supervisor adds.
NewState(cid, name, ports, volumes, restart_policy, as_service, cmd) ==
    [id |-> cid, name |-> name, image |-> Image, status |-> "starting",
     ports |-> ports, volumes |-> volumes,
     command |-> Command(cmd), workdir |-> Workdir(cmd),
     restart |-> restart_policy, restart_count |-> 0,
     service_enabled |-> as_service, service_name |-> Null,
     mounts |-> <<>>, envs |-> <<>>]

NoState == NewState(Null, Null, <<>>, <<>>, "no", FALSE, Null)

\* save_state: whole-file replacement of <cid>.json
save_state(st, cid, data) ==
    [c \in (DOMAIN st) \cup {cid} |-> IF c = cid THEN data ELSE st[c]]

\* remove_state
remove_state(st, cid) == [c \in (DOMAIN st) \ {cid} |-> st[c]]

\* The content of a state file that json.load raises on (an empty or
\* truncated file).
Unparsable == [NoState EXCEPT !.status = "unparsable"]

\* iter_states: the records of the files that parse
iter_states(st) == {st[c] : c \in {d \in DOMAIN st : st[d] # Unparsable}}

\* A lookup that prefers a record whose name is the identifier to the file
\* named after the identifier.
load_state_NameFirst(st, identifier) ==
    IF \E s \in iter_states(st) : s.name = identifier
    THEN {s \in iter_states(st) : s.name = identifier}
    ELSE IF identifier \in DOMAIN st /\ st[identifier] # Unparsable
    THEN {st[identifier]}
    ELSE {}

\* load_state: the file named <identifier>.json if it exists (None if it
\* does not parse), else any record whose name is the identifier
\* (directory order is arbitrary).
\* The result is the set of records the call can return; empty = None.
load_state(st, identifier) ==
    IF identifier \in DOMAIN st
    THEN IF st[identifier] = Unparsable THEN {} ELSE {st[identifier]}
    ELSE {s \in iter_states(st) : s.name = identifier}

\* get_id_by_name finding no record whatever the store holds
get_id_by_name_Nothing(st, name) == {}

\* get_id_by_name: truthy iff the name resolves to a record
get_id_by_name(st, name) ==
    IF name = Null THEN {} ELSE {s.id : s \in load_state(st, name)}

\* _container_service_name
_container_service_name(s) ==
    IF s.service_name # Null THEN s.service_name
    ELSE IF s.name # Null THEN s.name ELSE s.id


\* ------------------------------------------------------ processes' locals
IdleCli == [pc |-> "idle", ident |-> Null, s |-> NoState, t |-> NoState]

\* A supervisor process: the container id on its command line, its position
\* in internal_daemon, its in-memory record s, the entrypoint's exit code,
\* its port-forwarding listener, the stop event of the current iteration
\* (none before line 885, then clear, then set), the systemd unit that
\* runs it (or Null) and the connection its listener has accepted (none;
\* open: both forwarders run; half: a peer has closed its end; closed).
NewSup(cid, unit) ==
    [cid |-> cid, pc |-> "load", s |-> NoState, exit_code |-> 0, proxy |-> "none",
     stop |-> "none", unit |-> unit, conn |-> "none"]

\* A process that has exited: its daemon threads (the listener) die with it.
DeadSup(cid) ==
    [cid |-> cid, pc |-> "dead", s |-> NoState, exit_code |-> 0, proxy |-> "none",
     stop |-> "none", unit |-> Null, conn |-> "none"]

Alive(i) == sups[i].pc # "dead"

\* check_port_free: bind() on the host port succeeds iff no listener holds it
check_port_free(sp) == \A i \in DOMAIN sp : sp[i].proxy = "none"

\* ------------------------------------------------------------- systemd
\* systemctl stop <unit>: the unit's processes are killed, the unit is inactive
KillUnit(sp, n) ==
    [i \in DOMAIN sp |-> IF sp[i].unit = n /\ sp[i].pc # "dead" THEN DeadSup(sp[i].cid) ELSE sp[i]]

SystemctlStop(un, n) ==
    [u \in DOMAIN un |-> IF u = n THEN [un[u] EXCEPT !.active = FALSE] ELSE un[u]]

\* _stop_container_service: only for a record with service_enabled
_stop_container_service_units(un, s) ==
    IF s.service_enabled THEN SystemctlStop(un, _container_service_name(s)) ELSE un

_stop_container_service_sups(sp, s) ==
    IF s.service_enabled THEN KillUnit(sp, _container_service_name(s)) ELSE sp

\* _remove_container_service: systemctl disable --now, unit file removed
_remove_container_service_sups(sp, s) ==
    IF s.service_enabled THEN KillUnit(sp, _container_service_name(s)) ELSE sp

_remove_container_service_units(un, s) ==
    IF s.service_enabled
    THEN [u \in (DOMAIN un) \ {_container_service_name(s)} |-> un[u]]
    ELSE un

\* shutil.rmtree(root, ignore_errors=True): a directory that is a mount
\* point cannot be removed (EBUSY), so the root survives while a mount
\* remains under it.
rmtree(rs, cid) ==
    IF bindDepth[cid] = 0 /\ procDepth[cid] = 0 THEN rs \ {cid} ELSE rs

\* shutil.rmtree descends into every directory that is not a symbolic link:
\* the profile under the root is deleted, and so are the files of a host
\* directory that is still bound on the volume target.
rmtree_profile(pf, cid) == [pf EXCEPT ![cid] = {}]

rmtree_host(hf, cid) == IF bindDepth[cid] > 0 THEN FALSE ELSE hf

\* umount -l <target>: detaches the topmost mount of the target, if any
umount(d) == IF d > 0 THEN d - 1 ELSE 0

\* ------------------------------------------------------------- compose
\* No create up command is running (the specifications of lbox.py alone).
UpIdle ==
    [pc |-> "idle", services |-> <<>>, remove_orphans |-> FALSE,
     ordered_services |-> <<>>, error |-> "none", named |-> {},
     k |-> 0, cmd |-> 0, ups |-> 0, after_first |-> {}, failed |-> {},
     needs_monitor |-> FALSE, pid |-> 0]

\* The service names manifests are written with, in a fixed enumeration.
ServiceSeq ==
    [i \in 1..MaxServices |->
        IF i = 1 THEN "db" ELSE IF i = 2 THEN "web" ELSE IF i = 3 THEN "app" ELSE "job"]
ServiceNames(n) == {ServiceSeq[i] : i \in 1..n}

\* The depends_on of one entry of the services mapping: the set of names
\* it lists (a list, or the keys of a mapping, lines 28-30), which may be
\* names the manifest does not define; deps_ok = FALSE when depends_on is
\* neither a list nor a mapping (line 31).
DependsOns(U) ==
    {d \in [depends_on : SUBSET U, deps_ok : BOOLEAN] : ~d.deps_ok => d.depends_on = {}}

\* The keys of the services mapping in file order (a dict keeps its
\* insertion order): at most n distinct names from U.
KeyOrders(U, n) ==
    UNION {{k \in [1..l -> U] : \A i, j \in 1..l : k[i] = k[j] => i = j} : l \in 0..n}

\* The services mapping with these keys, depends_on entries and ports
Manifest(keys, deps, ports) ==
    [i \in DOMAIN keys |->
        [name |-> keys[i], depends_on |-> deps[i].depends_on,
         deps_ok |-> deps[i].deps_ok, ports |-> ports[i]]]

\* services.keys() as a set and in file order
Defined(services) == {services[i].name : i \in DOMAIN services}
Keys(services) == [i \in DOMAIN services |-> services[i].name]
\* services[name]
Svc(services, name) == CHOOSE s \in {services[i] : i \in DOMAIN services} : s.name = name

\* line 42: all(dep in resolved for dep in deps)
DepsResolved_Ignored(deps, resolved) == TRUE

DepsResolved(deps, resolved) == deps \subseteq {resolved[i] : i \in DOMAIN resolved}

\* lines 26-45: one pass of 'for name in list(pending.keys())' from
\* position i of the snapshot todo; a usage error ends it at once
RECURSIVE _start_order_pass(_, _, _, _, _, _)
_start_order_pass(services, todo, i, pending, resolved, progressed) ==
    IF i > Len(todo)
    THEN [error |-> "none", named |-> {}, pending |-> pending,
          resolved |-> resolved, progressed |-> progressed]
    ELSE LET name == todo[i]
             svc == Svc(services, name)
             unknown == svc.depends_on \ Defined(services)
         IN IF ~svc.deps_ok
            THEN [error |-> "invalid", named |-> {name}, pending |-> pending,
                  resolved |-> resolved, progressed |-> progressed]
            ELSE IF unknown # {}
            THEN [error |-> "undefined", named |-> {name} \cup unknown, pending |-> pending,
                  resolved |-> resolved, progressed |-> progressed]
            ELSE IF DepsResolved(svc.depends_on, resolved)
            THEN _start_order_pass(services, todo, i + 1, pending \ {name},
                                   Append(resolved, name), TRUE)
            ELSE _start_order_pass(services, todo, i + 1, pending, resolved, progressed)

\* 'while pending' without lines 47-49: a pass without progress ends the
\* loop and what was resolved is returned
RECURSIVE _start_order_while_NoCycleError(_, _, _)
_start_order_while_NoCycleError(services, pending, resolved) ==
    IF pending = {}
    THEN [error |-> "none", named |-> {}, order |-> resolved]
    ELSE LET todo == SelectSeq(Keys(services), LAMBDA n : n \in pending)
             r == _start_order_pass(services, todo, 1, pending, resolved, FALSE)
         IN IF r.error # "none"
            THEN [error |-> r.error, named |-> r.named, order |-> <<>>]
            ELSE IF ~r.progressed
            THEN [error |-> "none", named |-> {}, order |-> r.resolved]
            ELSE _start_order_while_NoCycleError(services, r.pending, r.resolved)

\* lines 24-51: 'while pending'; a pass without progress is a cycle, and
\* the message names every service still pending
RECURSIVE _start_order_while(_, _, _)
_start_order_while(services, pending, resolved) ==
    IF pending = {}
    THEN [error |-> "none", named |-> {}, order |-> resolved]
    ELSE LET todo == SelectSeq(Keys(services), LAMBDA n : n \in pending)
             r == _start_order_pass(services, todo, 1, pending, resolved, FALSE)
         IN IF r.error # "none"
            THEN [error |-> r.error, named |-> r.named, order |-> <<>>]
            ELSE IF ~r.progressed
            THEN [error |-> "cyclic", named |-> r.pending, order |-> <<>>]
            ELSE _start_order_while(services, r.pending, r.resolved)

\* _service_start_order(services): the order, or the usage error it raises
\* with the names its message lists
_service_start_order(services) ==
    _start_order_while(services, Defined(services), <<>>)

\* ------------------------------------------------- the other commands
\* No restart command is running.
RestartIdle == [pc |-> "idle", ident |-> Null, config |-> NoState, cmd |-> 0, restarts |-> 0]

\* No create down command is running.
DownIdle ==
    [pc |-> "idle", file |-> FALSE, services |-> <<>>, rmi |-> "none",
     remove_orphans |-> FALSE, orphans |-> {}, target |-> Null, back |-> "idle",
     k |-> 0, cmd |-> 0]

\* The artifacts IMAGES_DIR can hold for a tag: <tag>.tar, <tag>.tar.gz and
\* the sidecar <tag>.json; 0 = the file does not exist, n > 0 = the file
\* exists with its n-th content.
NoArtifacts == [tar |-> 0, targz |-> 0, json |-> 0]

\* The image tags create down and build work on. (For run, the archive of
\* its image is there or not as the environment has it.)
Tags == {"proj_db", "proj_web", Image}

\* None of these tags has an artifact.
NoImages == [tag \in Tags |-> NoArtifacts]

\* No build command is running.
BuildIdle ==
    [pc |-> "idle", file |-> FALSE, euid0 |-> FALSE, base |-> FALSE, tag |-> Null,
     steps |-> <<>>, k |-> 0, root |-> FALSE, meta |-> [cmd |-> Null, workdir |-> "/"],
     failure |-> "none", rc |-> 0, before |-> NoArtifacts]

\* No auto-update monitor is running.
MonitorIdle ==
    [pc |-> "idle", euid0 |-> FALSE, services |-> <<>>, last_state |-> <<>>,
     k |-> 0, cycles |-> 0, should_update |-> FALSE, cmd |-> 0,
     seen |-> <<>>, obs |-> [name |-> Null, value |-> Null, previous |-> Null]]

\* The export lines the image's own profile holds (written by ENV
\* instructions when the image was built, line 744).
ImageProfile == {"LANG=C"}

\* No root holds a profile; the host directory has its files; no monitor
\* was started.
\* The names of the instruction files of a build context
FileNames == {"lbox", "app.lbox"}

\* Nothing was read from a build context.
NoFile == [file |-> Null, rev |-> 0]
ContextIdle == [files |-> [f \in FileNames |-> 0], read |-> NoFile, hashed |-> NoFile]

\* No network set-up is running.
NetworkIdle ==
    [pc |-> "idle", backend |-> "linux", services |-> <<>>, container_ids |-> {},
     addr |-> <<>>, i |-> 0, k |-> 0, hosts_map |-> <<>>, resolved |-> {}]

HostIdle ==
    /\ context = ContextIdle
    /\ network = NetworkIdle
    /\ etc_hosts = [n \in {} |-> {}]
    /\ profile = [c \in CIDs |-> {}]
    /\ hostFiles = TRUE
    /\ pid_file = 0
    /\ monitors = <<>>

\* The specifications of run / stop / rm / create up: none of the other
\* commands is issued.
CmdsIdle ==
    /\ restart = RestartIdle
    /\ down = DownIdle
    /\ images = NoImages
    /\ build = BuildIdle
    /\ monitor = MonitorIdle

\* ---------------------------------------------------------------- Init
NoContainer ==
    /\ state = [c \in {} |-> NoState]
    /\ roots = {}
    /\ bindDepth = [c \in CIDs |-> 0]
    /\ procDepth = [c \in CIDs |-> 0]
    /\ units = [u \in {} |-> [cid |-> Null, active |-> FALSE]]
    /\ nextCid = 1
    /\ cli = [p \in Procs |-> IdleCli]
    /\ sups = <<>>
    /\ HostIdle
    /\ nCmds = 0
    /\ execs = [c \in CIDs |-> 0]
    /\ stage = [c \in CIDs |-> "none"]
    /\ up = UpIdle

\* The state after installation: no container, no command running
Init == NoContainer /\ CmdsIdle

\* ------------------------------------------------------------ CLI: run
\* The options a run command is given.
RunArgs ==
    [name : Names \cup {Null}, ports : {<<>>, <<HostPort>>}, volumes : {<<>>, <<Volume>>},
     restart : Policies, as_service : BOOLEAN, cmd : {Null}]

\* The options of the run commands that race for a name.
RaceArgs ==
    [name : Names \cup {Null}, ports : {<<>>}, volumes : {<<Volume>>},
     restart : {"no", "always"}, as_service : {FALSE}, cmd : {Null}]

\* run commands that passed their checks and have not yet taken their id
Pending == Cardinality({q \in Procs : cli[q].pc = "run_create"})

CanIssue(p) == cli[p].pc = "idle" /\ nCmds < MaxCommands

Finish(p) ==
    cli' = [cli EXCEPT ![p] = IdleCli]

\* The -e entries of a run command (none when the command gives none)
Envs(a) == IF "envs" \in DOMAIN a THEN a.envs ELSE <<>>

\* LinuxEngine.run, line 762: the name resolves to a record
RunNameTaken(p, A) ==
    /\ CanIssue(p)
    /\ \E a \in A : get_id_by_name(state, a.name) # {}
    /\ nCmds' = nCmds + 1
    /\ Finish(p)
    /\ UNCHANGED <<host, cmds, up, disk, units, nextCid, sups, execs, stage>>

\* LinuxEngine.run, lines 763-764: a requested host port is not free
RunPortTaken(p, A) ==
    /\ CanIssue(p)
    /\ \E a \in A :
          /\ get_id_by_name(state, a.name) = {}
          /\ a.ports # <<>> /\ ~check_port_free(sups)
    /\ nCmds' = nCmds + 1
    /\ Finish(p)
    /\ UNCHANGED <<host, cmds, up, disk, units, nextCid, sups, execs, stage>>

\* LinuxEngine.run, lines 766-767: the image archive does not exist
RunImageMissing(p, A) ==
    /\ CanIssue(p)
    /\ \E a \in A :
          /\ get_id_by_name(state, a.name) = {}
          /\ a.ports = <<>> \/ check_port_free(sups)
    /\ nCmds' = nCmds + 1
    /\ Finish(p)
    /\ UNCHANGED <<host, cmds, up, disk, units, nextCid, sups, execs, stage>>

\* LinuxEngine.run, lines 762-776: both checks pass and the image exists
RunBegin(p, A, maxc) ==
    /\ CanIssue(p)
    /\ nextCid + Pending <= maxc
    /\ \E a \in A :
          /\ get_id_by_name(state, a.name) = {}
          /\ a.ports = <<>> \/ check_port_free(sups)
          /\ cli' = [cli EXCEPT ![p] =
                 [IdleCli EXCEPT !.pc = "run_create",
                     !.s = [NewState(Null, a.name, a.ports, a.volumes,
                                     a.restart, a.as_service, a.cmd)
                               EXCEPT !.envs = Envs(a)]]]
    /\ nCmds' = nCmds + 1
    /\ UNCHANGED <<host, cmds, up, disk, units, nextCid, sups, execs, stage>>

\* lines 778-798: fresh id, root created and filled, record saved
RunCreate(p) ==
    /\ cli[p].pc = "run_create"
    /\ LET cid == CidSeq[nextCid]
           st == [cli[p].s EXCEPT !.id = cid]
       IN /\ roots' = roots \cup {cid}
          /\ state' = save_state(state, cid, st)
          /\ cli' = [cli EXCEPT ![p].pc = "run_spawn", ![p].s = st]
          /\ profile' = [profile EXCEPT ![cid] = ImageProfile]
    /\ nextCid' = nextCid + 1
    /\ UNCHANGED <<hostFiles, compose, local, cmds, up, bindDepth, procDepth, units, sups, nCmds, execs, stage>>

\* lines 780-783, 826: extracting the image raises; the root is removed
\* again and no record was written
RunExtractFail(p) ==
    /\ cli[p].pc = "run_create"
    /\ nextCid' = nextCid + 1
    /\ Finish(p)
    /\ UNCHANGED <<host, cmds, up, disk, units, sups, nCmds, execs, stage>>

\* lines 800-802, 810/812, 826: opening the log or spawning the supervisor
\* raises after the record was saved; the handler removes the root only
RunSpawnFail(p) ==
    /\ cli[p].pc = "run_spawn"
    /\ roots' = rmtree(roots, cli[p].s.id)
    /\ profile' = rmtree_profile(profile, cli[p].s.id)
    /\ hostFiles' = rmtree_host(hostFiles, cli[p].s.id)
    /\ Finish(p)
    /\ UNCHANGED <<compose, local, cmds, up, state, bindDepth, procDepth, units, nextCid, sups, nCmds, execs, stage>>

\* lines 811-812 (and 810 after a failed registration): spawn_internal_daemon
RunSpawn(p) ==
    /\ cli[p].pc = "run_spawn"
    /\ ~cli[p].s.service_enabled
    /\ Len(sups) < MaxSups
    /\ sups' = Append(sups, NewSup(cli[p].s.id, Null))
    /\ cli' = [cli EXCEPT ![p].pc = "run_wait"]
    /\ UNCHANGED <<host, cmds, up, disk, units, nextCid, nCmds, execs, stage>>

\* _register_container_service, lines 212-236: the unit is written and
\* 'systemctl enable --now' starts it; an already active unit of that name
\* keeps its process and only gets the new ExecStart
RunRegister(p) ==
    /\ cli[p].pc = "run_spawn"
    /\ cli[p].s.service_enabled
    /\ LET n == _container_service_name(cli[p].s)
           cid == cli[p].s.id
           wasActive == n \in DOMAIN units /\ units[n].active
       IN /\ wasActive \/ Len(sups) < MaxSups
          /\ units' = [u \in (DOMAIN units) \cup {n} |->
                          IF u = n THEN [cid |-> cid, active |-> TRUE] ELSE units[u]]
          /\ sups' = IF wasActive THEN sups ELSE Append(sups, NewSup(cid, n))
    /\ cli' = [cli EXCEPT ![p].pc = "run_regsave"]
    /\ UNCHANGED <<host, cmds, up, disk, nextCid, nCmds, execs, stage>>

\* _register_container_service, lines 238-241: the CLI's in-memory record
\* (status as created) is written back with the service fields set
RunRegSave(p) ==
    /\ cli[p].pc = "run_regsave"
    /\ LET st == [cli[p].s EXCEPT !.service_enabled = TRUE,
                                  !.service_name = _container_service_name(cli[p].s)]
       IN /\ state' = save_state(state, st.id, st)
          /\ cli' = [cli EXCEPT ![p].pc = "run_wait", ![p].s = st]
    /\ UNCHANGED <<host, cmds, up, roots, bindDepth, procDepth, units, nextCid, sups, nCmds, execs, stage>>

\* lines 231-236, 805-809: systemctl fails, registration returns False;
\* the record is saved with service mode off and the plain spawn follows
RunRegisterFail(p) ==
    /\ cli[p].pc = "run_spawn"
    /\ cli[p].s.service_enabled
    /\ LET st == [cli[p].s EXCEPT !.service_enabled = FALSE, !.service_name = Null]
       IN /\ state' = save_state(state, st.id, st)
          /\ cli' = [cli EXCEPT ![p].s = st]
    /\ UNCHANGED <<host, cmds, up, roots, bindDepth, procDepth, units, nextCid, sups, nCmds, execs, stage>>

\* lines 815-825: the poll loop; it only reads, and ends on running, on
\* error, on a missing record or on timeout
RunWait(p) ==
    /\ cli[p].pc = "run_wait"
    /\ LET cid == cli[p].s.id
       IN /\ \/ cid \in DOMAIN state /\ state[cid].status = "running"
             \/ cid \in DOMAIN state /\ state[cid].status = "error"
             \/ IF cid \in DOMAIN state
                THEN state[cid].status \notin {"running", "error"} ELSE TRUE
          /\ stage' = [stage EXCEPT ![cid] = "run"]
    /\ Finish(p)
    /\ UNCHANGED <<host, cmds, up, disk, units, nextCid, sups, nCmds, execs>>

\* ----------------------------------------------------------- CLI: stop
Idents == CIDs \cup Names

\* LinuxEngine.stop, lines 829-830: the identifier resolves to nothing
StopNotFoundIn(p, I) ==
    /\ CanIssue(p)
    /\ \E ident \in I : load_state(state, ident) = {}
    /\ nCmds' = nCmds + 1
    /\ Finish(p)
    /\ UNCHANGED <<host, cmds, up, disk, units, nextCid, sups, execs, stage>>

\* the command stop IDENTIFIER with any identifier
StopNotFound(p) == StopNotFoundIn(p, Idents)

\* LinuxEngine.stop, lines 829-832: load the record, stop its service
StopLoadIn(p, I) ==
    /\ CanIssue(p)
    /\ \E ident \in I : \E s \in load_state(state, ident) :
          /\ units' = _stop_container_service_units(units, s)
          /\ sups' = _stop_container_service_sups(sups, s)
          /\ cli' = [cli EXCEPT ![p] = [IdleCli EXCEPT !.pc = "stop_save", !.ident = ident, !.t = s]]
    /\ nCmds' = nCmds + 1
    /\ UNCHANGED <<host, cmds, up, disk, nextCid, execs, stage>>

\* the command stop IDENTIFIER with any identifier
StopLoad(p) == StopLoadIn(p, Idents)

\* LinuxEngine.stop, lines 833-834: the loaded record is written back whole
\* with status exited
StopSave(p) ==
    /\ cli[p].pc = "stop_save"
    /\ state' = save_state(state, cli[p].t.id, [cli[p].t EXCEPT !.status = "exited"])
    /\ stage' = [stage EXCEPT ![cli[p].t.id] = IF @ = "run" THEN "stopped" ELSE @]
    /\ Finish(p)
    /\ UNCHANGED <<host, cmds, up, roots, bindDepth, procDepth, units, nextCid, sups, nCmds, execs>>

\* ------------------------------------------------------------- CLI: rm
\* LinuxEngine.rm, lines 838-839: the identifier resolves to nothing
RmNotFoundIn(p, I) ==
    /\ CanIssue(p)
    /\ \E ident \in I : load_state(state, ident) = {}
    /\ nCmds' = nCmds + 1
    /\ Finish(p)
    /\ UNCHANGED <<host, cmds, up, disk, units, nextCid, sups, execs, stage>>

\* the command rm IDENTIFIER with any identifier
RmNotFound(p) == RmNotFoundIn(p, Idents)

\* LinuxEngine.rm, lines 838-840: load the record, remove its service
RmLoadIn(p, I) ==
    /\ CanIssue(p)
    /\ \E ident \in I : \E s \in load_state(state, ident) :
          /\ units' = _remove_container_service_units(units, s)
          /\ sups' = _remove_container_service_sups(sups, s)
          /\ cli' = [cli EXCEPT ![p] = [IdleCli EXCEPT !.pc = "rm_stop", !.ident = ident, !.s = s]]
    /\ nCmds' = nCmds + 1
    /\ UNCHANGED <<host, cmds, up, disk, nextCid, execs, stage>>

\* the command rm IDENTIFIER with any identifier
RmLoad(p) == RmLoadIn(p, Idents)

\* line 841, self.stop(ident), lines 829-832: stop resolves the identifier
\* again and stops the record's service. (Only rm removes a record and rm
\* is issued by one CLI process here, so the record is still there.)
RmStopLoad(p) ==
    /\ cli[p].pc = "rm_stop"
    /\ \E s \in load_state(state, cli[p].ident) :
          /\ units' = _stop_container_service_units(units, s)
          /\ sups' = _stop_container_service_sups(sups, s)
          /\ cli' = [cli EXCEPT ![p].pc = "rm_stop_save", ![p].t = s]
    /\ UNCHANGED <<host, cmds, up, disk, nextCid, nCmds, execs, stage>>

\* line 841, self.stop(ident), lines 833-834: status exited is written
RmStopSave(p) ==
    /\ cli[p].pc = "rm_stop_save"
    /\ state' = save_state(state, cli[p].t.id, [cli[p].t EXCEPT !.status = "exited"])
    /\ cli' = [cli EXCEPT ![p].pc = "rm_umount", ![p].t = NoState]
    /\ UNCHANGED <<host, cmds, up, roots, bindDepth, procDepth, units, nextCid, sups, nCmds, execs, stage>>

\* lines 842-844: one umount -l per entry of the mounts rm loaded at its
\* start, and one for <root>/proc
RmUmount(p) ==
    /\ cli[p].pc = "rm_umount"
    /\ LET cid == cli[p].s.id
       IN /\ bindDepth' = [bindDepth EXCEPT ![cid] =
                 IF cli[p].s.mounts # <<>> THEN umount(@) ELSE @]
          /\ procDepth' = [procDepth EXCEPT ![cid] = umount(@)]
    /\ cli' = [cli EXCEPT ![p].pc = "rm_rmtree"]
    /\ UNCHANGED <<host, cmds, up, state, roots, units, nextCid, sups, nCmds, execs, stage>>

\* line 845: shutil.rmtree(s['root'], ignore_errors=True)
RmRmtree(p) ==
    /\ cli[p].pc = "rm_rmtree"
    /\ roots' = rmtree(roots, cli[p].s.id)
    /\ profile' = rmtree_profile(profile, cli[p].s.id)
    /\ hostFiles' = rmtree_host(hostFiles, cli[p].s.id)
    /\ cli' = [cli EXCEPT ![p].pc = "rm_remove"]
    /\ UNCHANGED <<compose, local, cmds, up, state, bindDepth, procDepth, units, nextCid, sups, nCmds, execs, stage>>

\* line 846: remove_state(s['id'])
RmRemoveState(p) ==
    /\ cli[p].pc = "rm_remove"
    /\ state' = remove_state(state, cli[p].s.id)
    /\ stage' = [stage EXCEPT ![cli[p].s.id] = IF @ = "stopped" THEN "removed" ELSE @]
    /\ Finish(p)
    /\ UNCHANGED <<host, cmds, up, roots, bindDepth, procDepth, units, nextCid, sups, nCmds, execs>>

\* ------------------------------------------- supervisor: internal_daemon
\* internal_daemon returns: the process ends once its non-daemon threads
\* (the forwarders of handle_connection_retry, lbox.py lines 429-433) have
\* ended; until then it is joining them.
SupExits(i) ==
    sups' = [sups EXCEPT ![i] = IF sups[i].conn \in {"open", "half"}
                                THEN [@ EXCEPT !.pc = "joining"]
                                ELSE DeadSup(sups[i].cid)]

\* lines 880-882: the record is missing, the supervisor returns
SupLoadMissing(i) ==
    /\ i \in DOMAIN sups
    /\ sups[i].pc = "load"
    /\ load_state(state, sups[i].cid) = {}
    /\ SupExits(i)
    /\ UNCHANGED <<host, cmds, up, disk, units, nextCid, cli, nCmds, execs, stage>>

\* lines 880-885: s = load_state(cid); stop = threading.Event()
SupLoad(i) ==
    /\ i \in DOMAIN sups
    /\ sups[i].pc = "load"
    /\ \E s \in load_state(state, sups[i].cid) :
          sups' = [sups EXCEPT ![i].pc = "ports", ![i].s = s, ![i].stop = "clear"]
    /\ UNCHANGED <<host, cmds, up, disk, units, nextCid, cli, nCmds, execs, stage>>

\* line 887: the record has no ports, no fabric is started
SupPortsNone(i) ==
    /\ i \in DOMAIN sups
    /\ sups[i].pc = "ports"
    /\ sups[i].s.ports = <<>>
    /\ sups' = [sups EXCEPT ![i].pc = "run"]
    /\ UNCHANGED <<host, cmds, up, disk, units, nextCid, cli, nCmds, execs, stage>>

\* start_port_forwarding, lines 352-358: the trial bind of check_port_free
\* succeeds (and is closed again); wait_for_port then waits up to 10 s for
\* the container port
SupPortsOk(i) ==
    /\ i \in DOMAIN sups
    /\ sups[i].pc = "ports"
    /\ sups[i].s.ports # <<>>
    /\ check_port_free(sups)
    /\ sups' = [sups EXCEPT ![i].pc = "bind"]
    /\ UNCHANGED <<host, cmds, up, disk, units, nextCid, cli, nCmds, execs, stage>>

\* lines 360-371 and tcp_proxy, lines 374-379: the listener thread is
\* started and binds the host port; start_port_forwarding returns True.
\* (The thread's bind is taken at the thread's start.)
SupProxyBind(i) ==
    /\ i \in DOMAIN sups
    /\ sups[i].pc = "bind"
    /\ check_port_free(sups)
    /\ sups' = [sups EXCEPT ![i].pc = "run", ![i].proxy = "bound"]
    /\ UNCHANGED <<host, cmds, up, disk, units, nextCid, cli, nCmds, execs, stage>>

\* lines 360-371 and tcp_proxy, lines 374-380: the port was taken since the
\* trial bind; bind raises in the thread, 'except Exception as e: return'
\* ends the thread, and start_port_forwarding has returned True all the same
SupProxyBindFail(i) ==
    /\ i \in DOMAIN sups
    /\ sups[i].pc = "bind"
    /\ ~check_port_free(sups)
    /\ sups' = [sups EXCEPT ![i].pc = "run"]
    /\ UNCHANGED <<host, cmds, up, disk, units, nextCid, cli, nCmds, execs, stage>>

\* lines 888-891: start_port_forwarding returns False (port busy):
\* status error is saved and the supervisor returns
SupPortsFail(i) ==
    /\ i \in DOMAIN sups
    /\ sups[i].pc = "ports"
    /\ sups[i].s.ports # <<>>
    /\ ~check_port_free(sups)
    /\ state' = save_state(state, sups[i].cid, [sups[i].s EXCEPT !.status = "error"])
    /\ SupExits(i)
    /\ UNCHANGED <<host, cmds, up, roots, bindDepth, procDepth, units, nextCid, cli, nCmds, execs, stage>>

\* lines 898-899: s['status'] = 'running'; save_state(cid, s)
SupRunning(i) ==
    /\ i \in DOMAIN sups
    /\ sups[i].pc = "run"
    /\ execs[sups[i].cid] < MaxExecs
    /\ LET s == [sups[i].s EXCEPT !.status = "running"]
       IN /\ state' = save_state(state, sups[i].cid, s)
          /\ sups' = [sups EXCEPT ![i].pc = "mount", ![i].s = s]
    /\ UNCHANGED <<host, cmds, up, roots, bindDepth, procDepth, units, nextCid, cli, nCmds, execs, stage>>

\* lines 919-928: each volume target is created under the root and the
\* host path bound on it; <root>/proc is created and proc mounted on it.
\* A mount on a target that is already a mount point stacks on top of it.
SupMount(i) ==
    /\ i \in DOMAIN sups
    /\ sups[i].pc = "mount"
    /\ LET cid == sups[i].cid
       IN /\ roots' = roots \cup {cid}
          /\ bindDepth' = [bindDepth EXCEPT ![cid] =
                 IF sups[i].s.volumes # <<>> THEN @ + 1 ELSE @]
          /\ procDepth' = [procDepth EXCEPT ![cid] = @ + 1]
    /\ sups' = [sups EXCEPT ![i].pc = "save_mounts"]
    /\ UNCHANGED <<host, cmds, up, state, units, nextCid, cli, nCmds, execs, stage>>

\* lines 929-933: s['mounts'] = mp; save_state(cid, s); the entrypoint is
\* launched in the chroot
SupSaveMounts(i) ==
    /\ i \in DOMAIN sups
    /\ sups[i].pc = "save_mounts"
    /\ LET cid == sups[i].cid
           s == [sups[i].s EXCEPT !.mounts = sups[i].s.volumes]
       IN /\ state' = save_state(state, cid, s)
          /\ sups' = [sups EXCEPT ![i].pc = "exec", ![i].s = s]
          /\ execs' = [execs EXCEPT ![cid] = @ + 1]
    /\ UNCHANGED <<host, cmds, up, roots, bindDepth, procDepth, units, nextCid, cli, nCmds, stage>>

\* the finally clause left out: the stop event stays as it is
Finally_Skipped(stop) == stop

\* lines 938-939: finally: stop.set()
Finally(stop) == "set"

\* lines 933-939: the entrypoint exits with some code (an exception while
\* launching it gives exit_code = 1); finally stop.set() tells the listener
\* to close
SupEntrypointExit(i) ==
    /\ i \in DOMAIN sups
    /\ sups[i].pc = "exec"
    /\ \E code \in ExitCodes :
          sups' = [sups EXCEPT ![i].pc = "reload", ![i].exit_code = code,
                      ![i].stop = Finally(@),
                      ![i].proxy = IF @ = "bound" /\ Finally(sups[i].stop) = "set"
                                   THEN "stopping" ELSE @]
    /\ UNCHANGED <<host, cmds, up, disk, units, nextCid, cli, nCmds, execs, stage>>

\* tcp_proxy, lines 382-388: the accept loop sees the stop event within a
\* second and closes the listening socket
ProxyClose(i) ==
    /\ i \in DOMAIN sups
    /\ sups[i].proxy = "stopping"
    /\ sups' = [sups EXCEPT ![i].proxy = "none"]
    /\ UNCHANGED <<host, cmds, up, disk, units, nextCid, cli, nCmds, execs, stage>>

\* lines 941-943: the record is read again; missing, the supervisor returns
SupReloadMissing(i) ==
    /\ i \in DOMAIN sups
    /\ sups[i].pc = "reload"
    /\ load_state(state, sups[i].cid) = {}
    /\ SupExits(i)
    /\ UNCHANGED <<host, cmds, up, disk, units, nextCid, cli, nCmds, execs, stage>>

SupReload(i) ==
    /\ i \in DOMAIN sups
    /\ sups[i].pc = "reload"
    /\ \E s \in load_state(state, sups[i].cid) :
          sups' = [sups EXCEPT ![i].pc = "decide", ![i].s = s]
    /\ UNCHANGED <<host, cmds, up, disk, units, nextCid, cli, nCmds, execs, stage>>

\* The restart policy with 'always' read as 'on-failure': a restart only
\* after a non-zero exit code.
should_restart_AlwaysOnFailure(restart_policy, exit_code, status) ==
    IF restart_policy \in {"always", "on-failure"} /\ exit_code # 0 THEN TRUE
    ELSE IF restart_policy = "unless-stopped" THEN status # "exited"
    ELSE FALSE

\* The restart policy with 'on-failure' restarting after every exit.
should_restart_OnFailureAlways(restart_policy, exit_code, status) ==
    IF restart_policy \in {"always", "on-failure"} THEN TRUE
    ELSE IF restart_policy = "unless-stopped" THEN status # "exited"
    ELSE FALSE

\* The restart policy with 'unless-stopped' read as 'on-failure'.
should_restart_UnlessStoppedOnFailure(restart_policy, exit_code, status) ==
    IF restart_policy = "always" THEN TRUE
    ELSE IF restart_policy \in {"on-failure", "unless-stopped"} /\ exit_code # 0 THEN TRUE
    ELSE FALSE

\* lines 945-954: the restart policy
should_restart(restart_policy, exit_code, status) ==
    IF restart_policy = "always" THEN TRUE
    ELSE IF restart_policy = "on-failure" /\ exit_code # 0 THEN TRUE
    ELSE IF restart_policy = "unless-stopped" THEN status # "exited"
    ELSE FALSE

\* line 956
TakesRestart(s, exit_code) ==
    should_restart(s.restart, exit_code, s.status) /\ s.status # "exited"

\* lines 956-962: restart_count + 1, status restarting, saved; after the
\* backoff the loop starts over
SupRestart(i) ==
    /\ i \in DOMAIN sups
    /\ sups[i].pc = "decide"
    /\ TakesRestart(sups[i].s, sups[i].exit_code)
    /\ LET s == [sups[i].s EXCEPT !.restart_count = @ + 1, !.status = "restarting"]
       IN /\ state' = save_state(state, sups[i].cid, s)
          /\ sups' = [sups EXCEPT ![i].pc = "load", ![i].s = s]
    /\ UNCHANGED <<host, cmds, up, roots, bindDepth, procDepth, units, nextCid, cli, nCmds, execs, stage>>

\* lines 964-966: status exited is saved and the supervisor returns
SupExit(i) ==
    /\ i \in DOMAIN sups
    /\ sups[i].pc = "decide"
    /\ ~TakesRestart(sups[i].s, sups[i].exit_code)
    /\ state' = save_state(state, sups[i].cid, [sups[i].s EXCEPT !.status = "exited"])
    /\ SupExits(i)
    /\ UNCHANGED <<host, cmds, up, roots, bindDepth, procDepth, units, nextCid, cli, nCmds, execs, stage>>

\* A service manager that starts the unit's command again although the
\* process it started before is still running.
UnitHasProcess_Forgotten(sp, n) == FALSE

\* systemd's view of a unit: one of the processes it started is running
UnitHasProcess(sp, n) ==
    \E i \in DOMAIN sp : sp[i].pc # "dead" /\ sp[i].unit = n

\* The unit written by _register_container_service (lines 215-227) has
\* Restart=always: whenever the unit is active and its process has exited,
\* systemd runs ExecStart (internal-daemon <cid>) again.
SystemdRelaunch ==
    /\ Len(sups) < MaxSups
    /\ \E n \in DOMAIN units :
          /\ units[n].active
          /\ ~UnitHasProcess(sups, n)
          /\ sups' = Append(sups, NewSup(units[n].cid, n))
    /\ UNCHANGED <<host, cmds, up, disk, units, nextCid, cli, nCmds, execs, stage>>

\* ------------------------------------------------------------------ Next
CliStep(P, A, maxc) ==
    \E p \in P :
        \/ RunNameTaken(p, A) \/ RunPortTaken(p, A) \/ RunImageMissing(p, A)
        \/ RunBegin(p, A, maxc)
        \/ RunCreate(p) \/ RunExtractFail(p)
        \/ RunSpawnFail(p) \/ RunSpawn(p)
        \/ RunRegister(p) \/ RunRegSave(p) \/ RunRegisterFail(p)
        \/ RunWait(p)
        \/ StopNotFound(p) \/ StopLoad(p) \/ StopSave(p)
        \/ RmNotFound(p) \/ RmLoad(p) \/ RmStopLoad(p) \/ RmStopSave(p)
        \/ RmUmount(p) \/ RmRmtree(p) \/ RmRemoveState(p)

\* (With one container nothing takes the port between a supervisor's trial
\* bind and its listener's bind, so SupProxyBindFail has no place here.)
SupStep ==
    \E i \in 1..MaxSups :
        \/ SupLoadMissing(i) \/ SupLoad(i)
        \/ SupPortsNone(i) \/ SupPortsOk(i) \/ SupPortsFail(i)
        \/ SupProxyBind(i)
        \/ SupRunning(i) \/ SupMount(i) \/ SupSaveMounts(i)
        \/ SupEntrypointExit(i) \/ ProxyClose(i)
        \/ SupReloadMissing(i) \/ SupReload(i)
        \/ SupRestart(i) \/ SupExit(i)

\* One CLI process issues run, stop and rm one after the other, with every
\* option of run, while the supervisors, their listeners and systemd run
\* concurrently with it.
Next == CliStep({"cli1"}, RunArgs, MaxLifeContainers) \/ SupStep \/ SystemdRelaunch

Spec == Init /\ [][Next]_vars

\* Two CLI processes issue run commands concurrently (plain containers
\* without ports), with the supervisors they spawn.
RaceCli ==
    \E p \in Procs :
        \/ RunNameTaken(p, RaceArgs) \/ RunImageMissing(p, RaceArgs)
        \/ RunBegin(p, RaceArgs, MaxContainers)
        \/ RunCreate(p) \/ RunExtractFail(p)
        \/ RunSpawnFail(p) \/ RunSpawn(p)
        \/ RunWait(p)

RaceSup ==
    \E i \in 1..MaxSups :
        \/ SupLoad(i)
        \/ SupPortsNone(i)
        \/ SupRunning(i) \/ SupMount(i) \/ SupSaveMounts(i)
        \/ SupEntrypointExit(i)
        \/ SupReload(i)
        \/ SupRestart(i) \/ SupExit(i)

NextRace == RaceCli \/ RaceSup

SpecRace == Init /\ [][NextRace]_vars

\* run and stop of plain containers with restart policy no, under the
\* scheduling the processes have: a CLI command that was issued runs to its
\* end and a supervisor executes its own code, while nothing makes the user
\* issue a command and nothing makes an entrypoint exit.
StopArgs ==
    [name : Names \cup {Null}, ports : {<<>>}, volumes : {<<>>, <<Volume>>},
     restart : {"no"}, as_service : {FALSE}, cmd : {Null}]

StopCliIssue(p) ==
    RunBegin(p, StopArgs, MaxLifeContainers) \/ StopLoad(p)

StopCliProgress(p) ==
    RunCreate(p) \/ RunSpawn(p) \/ RunWait(p) \/ StopSave(p)

StopSupProgress(i) ==
    \/ SupLoad(i) \/ SupPortsNone(i)
    \/ SupRunning(i) \/ SupMount(i) \/ SupSaveMounts(i)
    \/ SupReload(i) \/ SupExit(i)

NextStop ==
    \/ StopCliIssue("cli1") \/ StopCliProgress("cli1")
    \/ \E i \in 1..MaxSups : StopSupProgress(i) \/ SupEntrypointExit(i)

SpecStop ==
    /\ Init /\ [][NextStop]_vars
    /\ WF_vars(StopCliProgress("cli1"))
    /\ \A i \in 1..MaxSups : WF_vars(StopSupProgress(i))

\* Two CLI processes issue run commands that publish the same host port,
\* with the supervisors they spawn and their listeners.
PortArgs ==
    [name : {Null}, ports : {<<HostPort>>}, volumes : {<<>>},
     restart : {"no"}, as_service : {FALSE}, cmd : {Null}]

PortsCli ==
    \E p \in Procs :
        \/ RunPortTaken(p, PortArgs) \/ RunBegin(p, PortArgs, MaxContainers)
        \/ RunCreate(p) \/ RunSpawn(p) \/ RunWait(p)

PortsSup ==
    \E i \in 1..MaxSups :
        \/ SupLoad(i) \/ SupPortsOk(i) \/ SupPortsFail(i)
        \/ SupProxyBind(i) \/ SupProxyBindFail(i)
        \/ SupRunning(i) \/ SupMount(i) \/ SupSaveMounts(i)
        \/ SupEntrypointExit(i) \/ ProxyClose(i)
        \/ SupReload(i) \/ SupExit(i)

NextPorts == PortsCli \/ PortsSup

SpecPorts == Init /\ [][NextPorts]_vars

\* One CLI process issues run and rm for plain containers whose --name may
\* be any string, the id of an earlier container included, while the
\* supervisors (which rm does not end outside service mode) run on.
IdArgs ==
    [name : {Null, CidSeq[1]}, ports : {<<>>}, volumes : {<<>>},
     restart : {"no"}, as_service : {FALSE}, cmd : {Null}]

IdsCli ==
    \E p \in {"cli1"} :
        \/ RunNameTaken(p, IdArgs) \/ RunBegin(p, IdArgs, MaxContainers)
        \/ RunCreate(p) \/ RunSpawn(p) \/ RunWait(p)
        \/ RmNotFound(p) \/ RmLoad(p) \/ RmStopLoad(p) \/ RmStopSave(p)
        \/ RmUmount(p) \/ RmRmtree(p) \/ RmRemoveState(p)

IdsSup ==
    \E i \in 1..MaxSups :
        \/ SupLoadMissing(i) \/ SupLoad(i)
        \/ SupPortsNone(i)
        \/ SupRunning(i) \/ SupMount(i) \/ SupSaveMounts(i)
        \/ SupEntrypointExit(i)
        \/ SupReloadMissing(i) \/ SupReload(i)
        \/ SupExit(i)

NextIds == IdsCli \/ IdsSup

SpecIds == Init /\ [][NextIds]_vars

\* The lookup as a function of the store: the store starts as any set of
\* at most MaxContainers state files, each holding a record under its own
\* id, a record left under another container's id by that container's
\* supervisor (its name is then the file's stem), or content that does not
\* parse; inspect <identifier> applies load_state to it.
LookupNames(c) == {Null} \cup Names \cup (CIDs \ {c})

LookupContents(c) ==
    {NewState(c, n, <<>>, <<>>, "no", FALSE, Null) : n \in LookupNames(c)}
    \cup {NewState(d, c, <<>>, <<>>, "no", FALSE, Null) : d \in CIDs \ {c}}
    \cup {Unparsable}

LookupStores ==
    UNION {[D -> UNION {LookupContents(c) : c \in D}] : D \in SUBSET CIDs}

InitLookup ==
    /\ state \in {st \in LookupStores : \A c \in DOMAIN st : st[c] \in LookupContents(c)}
    /\ roots = {}
    /\ bindDepth = [c \in CIDs |-> 0]
    /\ procDepth = [c \in CIDs |-> 0]
    /\ units = [u \in {} |-> [cid |-> Null, active |-> FALSE]]
    /\ nextCid = 1
    /\ cli = [p \in Procs |-> IdleCli]
    /\ sups = <<>>
    /\ HostIdle
    /\ nCmds = 0
    /\ execs = [c \in CIDs |-> 0]
    /\ stage = [c \in CIDs |-> "none"]
    /\ CmdsIdle
    /\ up = UpIdle

\* inspect, lines 1139-1141: the lookup returns None
InspectNotFound(p) ==
    /\ cli[p].pc = "idle"
    /\ \E ident \in Idents :
          /\ load_state(state, ident) = {}
          /\ cli' = [cli EXCEPT ![p] = [IdleCli EXCEPT !.pc = "not_found", !.ident = ident]]
    /\ UNCHANGED <<host, cmds, up, disk, units, nextCid, sups, nCmds, execs, stage>>

\* inspect, lines 1139-1142: the lookup returns a record, which is printed
InspectFound(p) ==
    /\ cli[p].pc = "idle"
    /\ \E ident \in Idents : \E s \in load_state(state, ident) :
          cli' = [cli EXCEPT ![p] = [IdleCli EXCEPT !.pc = "found", !.ident = ident, !.s = s]]
    /\ UNCHANGED <<host, cmds, up, disk, units, nextCid, sups, nCmds, execs, stage>>

NextLookup == InspectNotFound("cli1") \/ InspectFound("cli1")

SpecLookup == InitLookup /\ [][NextLookup]_vars

\* ============================================================ create up
\* lbox_create.py, up: the command's position is up.pc, its locals are the
\* other fields of up; the calls of eng.run are executed by CLI process p.

\* line 107: container_name = f"{project_name}_{name}"
container_name(name) == "proj_" \o name

\* list_project_containers (lbox.py): the names of the records whose name
\* starts with the project prefix
list_project_containers(st) ==
    {s.name : s \in iter_states(st)} \cap {container_name(ServiceSeq[i]) : i \in 1..MaxServices}

\* The ids and names of the container records
RecordSet == {<<s.id, s.name>> : s \in iter_states(state)}

\* lines 88-90: services is empty, the command prints and returns
\* (after_first keeps the record set at the end of the first up)
UpNoServices ==
    /\ up.pc = "start"
    /\ up.services = <<>>
    /\ up' = [up EXCEPT !.pc = "done",
                        !.after_first = IF up.ups = 1 THEN RecordSet ELSE @]
    /\ UNCHANGED <<host, cmds, disk, units, nextCid, cli, sups, nCmds, execs, stage>>

\* line 92: _service_start_order raises click.UsageError; the command ends
UpUsageError ==
    /\ up.pc = "start"
    /\ up.services # <<>>
    /\ LET r == _service_start_order(up.services)
       IN /\ r.error # "none"
          /\ up' = [up EXCEPT !.pc = "usage_error", !.error = r.error, !.named = r.named]
    /\ UNCHANGED <<host, cmds, disk, units, nextCid, cli, sups, nCmds, execs, stage>>

\* lines 92-93: ordered_services = _service_start_order(services)
UpOrdered ==
    /\ up.pc = "start"
    /\ up.services # <<>>
    /\ LET r == _service_start_order(up.services)
       IN /\ r.error = "none"
          /\ up' = [up EXCEPT !.pc = IF up.remove_orphans THEN "orphans" ELSE "loop",
                              !.ordered_services = r.order, !.k = 1]
    /\ UNCHANGED <<host, cmds, disk, units, nextCid, cli, sups, nCmds, execs, stage>>

\* The manifests _service_start_order is applied to: every services mapping
\* of at most MaxServices entries.
InitOrder ==
    /\ state = [c \in {} |-> NoState]
    /\ roots = {}
    /\ bindDepth = [c \in CIDs |-> 0]
    /\ procDepth = [c \in CIDs |-> 0]
    /\ units = [u \in {} |-> [cid |-> Null, active |-> FALSE]]
    /\ nextCid = 1
    /\ cli = [p \in Procs |-> IdleCli]
    /\ sups = <<>>
    /\ HostIdle
    /\ nCmds = 0
    /\ execs = [c \in CIDs |-> 0]
    /\ stage = [c \in CIDs |-> "none"]
    /\ CmdsIdle
    /\ \E keys \in KeyOrders(ServiceNames(MaxServices), MaxServices) :
       \E deps \in [DOMAIN keys -> DependsOns(ServiceNames(MaxServices))] :
          up = [UpIdle EXCEPT !.pc = "start", !.ups = 1,
                   !.services = Manifest(keys, deps, [i \in DOMAIN keys |-> <<>>])]

NextOrder == UpNoServices \/ UpUsageError \/ UpOrdered

SpecOrder == InitOrder /\ [][NextOrder]_vars

\* lines 95-101: --remove-orphans; eng.stop and eng.rm of a project
\* container the manifest does not define. The orphans of this model have
\* no supervisor, no service, no root and no mount, so that stop and rm
\* come to removing the state file.
UpRemoveOrphan ==
    /\ up.pc = "orphans"
    /\ \E s \in iter_states(state) :
          /\ s.name \in list_project_containers(state)
          /\ s.name \notin {container_name(n) : n \in Defined(up.services)}
          /\ state' = remove_state(state, s.id)
    /\ UNCHANGED <<host, cmds, up, roots, bindDepth, procDepth, units, nextCid, cli, sups, nCmds, execs, stage>>

\* lines 95-103: no orphan (is left), the loop over ordered_services begins
UpOrphansDone ==
    /\ up.pc = "orphans"
    /\ list_project_containers(state) \subseteq {container_name(n) : n \in Defined(up.services)}
    /\ up' = [up EXCEPT !.pc = "loop"]
    /\ UNCHANGED <<host, cmds, disk, units, nextCid, cli, sups, nCmds, execs, stage>>

\* The service the loop of lines 105-148 is at
UpAt == up.pc \in {"loop", "build", "image", "checked", "run"} /\ up.k \in DOMAIN up.ordered_services
UpName == up.ordered_services[up.k]

\* lines 110-119: the build fails or the image is not found; the service
\* is skipped and the loop goes on
UpSkipImage ==
    /\ up.pc = "loop" /\ UpAt
    /\ up' = [up EXCEPT !.k = @ + 1]
    /\ UNCHANGED <<host, cmds, disk, units, nextCid, cli, sups, nCmds, execs, stage>>

\* lines 150-151: svc.get('auto-update', {}).get('enabled')
AutoUpdate(svc) == IF "auto_update" \in DOMAIN svc THEN svc.auto_update ELSE FALSE

\* lines 121, 128-132, 148-151: a record of that name exists, whatever its
\* status; nothing is started
UpExistingAt(pc) ==
    /\ up.pc = pc /\ UpAt
    /\ get_id_by_name(state, container_name(UpName)) # {}
    /\ up' = [up EXCEPT !.pc = "loop", !.k = @ + 1,
                        !.needs_monitor = @ \/ AutoUpdate(Svc(up.services, UpName))]
    /\ UNCHANGED <<host, cmds, disk, units, nextCid, cli, sups, nCmds, execs, stage>>

\* (the build and the image check of lines 110-119 are left to UpSkipImage)
UpExisting == UpExistingAt("loop")

\* lines 121, 133-134: no record of that name, eng.run is called
UpRunAt(pc) ==
    /\ up.pc = pc /\ UpAt
    /\ nCmds < MaxCommands
    /\ get_id_by_name(state, container_name(UpName)) = {}
    /\ up' = [up EXCEPT !.pc = "run", !.cmd = nCmds]
    /\ UNCHANGED <<host, cmds, disk, units, nextCid, cli, sups, nCmds, execs, stage>>

UpRun == UpRunAt("loop")

\* lines 134-145: the arguments of eng.run for a service without volumes,
\* restart or as_service entries
UpRunArgs ==
    {[name |-> container_name(UpName), ports |-> Svc(up.services, UpName).ports,
      volumes |-> <<>>, restart |-> "no", as_service |-> FALSE, cmd |-> Null]}

UpCalls == up.pc = "run" /\ UpAt /\ nCmds = up.cmd

\* eng.run as up calls it: LinuxEngine.run from its first line
UpRunPortTaken(p) == UpCalls /\ RunPortTaken(p, UpRunArgs)
UpRunImageMissing(p) == UpCalls /\ RunImageMissing(p, UpRunArgs)
UpRunBegin(p) == UpCalls /\ RunBegin(p, UpRunArgs, MaxContainers)

\* lines 146-151: eng.run has returned (started, failed or timed out alike)
UpRunReturned(p) ==
    /\ up.pc = "run" /\ UpAt
    /\ nCmds > up.cmd
    /\ cli[p].pc = "idle"
    /\ up' = [up EXCEPT !.pc = "loop", !.k = @ + 1,
                        !.needs_monitor = @ \/ AutoUpdate(Svc(up.services, UpName))]
    /\ UNCHANGED <<host, cmds, disk, units, nextCid, cli, sups, nCmds, execs, stage>>

\* lines 105, 153-181: the loop is over; the network set-up writes no
\* record; needs_monitor is false and up returns
UpDone ==
    /\ up.pc = "loop"
    /\ up.k > Len(up.ordered_services)
    /\ ~up.needs_monitor
    /\ up' = [up EXCEPT !.pc = "done",
                        !.after_first = IF up.ups = 1 THEN RecordSet ELSE @]
    /\ UNCHANGED <<host, cmds, disk, units, nextCid, cli, sups, nCmds, execs, stage>>

\* The user runs up again with the same manifest and the same options.
UpAgain ==
    /\ up.pc = "done"
    /\ up.ups < MaxUps
    /\ up' = [up EXCEPT !.pc = "start", !.ups = @ + 1, !.ordered_services = <<>>,
                        !.k = 0, !.cmd = 0, !.failed = {}, !.needs_monitor = FALSE,
                        !.pid = 0]
    /\ UNCHANGED <<host, cmds, disk, units, nextCid, cli, sups, nCmds, execs, stage>>

\* up starts with no container, or with one project container left by an
\* earlier up whose run could not spawn the supervisor (record saved, root
\* removed again) and that was stopped since; the manifest has at most
\* MaxUpServices services, which may publish the host port.
UpLeftover(n) ==
    [NewState(CidSeq[1], container_name(n), <<>>, <<>>, "no", FALSE, Null) EXCEPT !.status = "exited"]

InitUp ==
    /\ \/ state = [c \in {} |-> NoState] /\ nextCid = 1
       \/ \E n \in ServiceNames(MaxUpServices) :
             state = [c \in {CidSeq[1]} |-> UpLeftover(n)] /\ nextCid = 2
    /\ roots = {}
    /\ bindDepth = [c \in CIDs |-> 0]
    /\ procDepth = [c \in CIDs |-> 0]
    /\ units = [u \in {} |-> [cid |-> Null, active |-> FALSE]]
    /\ cli = [p \in Procs |-> IdleCli]
    /\ sups = <<>>
    /\ HostIdle
    /\ nCmds = 0
    /\ execs = [c \in CIDs |-> 0]
    /\ stage = [c \in CIDs |-> "none"]
    /\ CmdsIdle
    /\ \E keys \in KeyOrders(ServiceNames(MaxUpServices), MaxUpServices) :
       \E deps \in [DOMAIN keys -> DependsOns(ServiceNames(MaxUpServices))] :
       \E ports \in [DOMAIN keys -> {<<>>, <<HostPort>>}] :
       \E ro \in BOOLEAN :
          up = [UpIdle EXCEPT !.pc = "start", !.ups = 1, !.remove_orphans = ro,
                   !.services = Manifest(keys, deps, ports)]

UpStep(p) ==
    \/ UpNoServices \/ UpUsageError \/ UpOrdered
    \/ UpRemoveOrphan \/ UpOrphansDone
    \/ UpSkipImage \/ UpExisting \/ UpRun
    \/ UpRunPortTaken(p) \/ UpRunImageMissing(p) \/ UpRunBegin(p)
    \/ RunCreate(p) \/ RunExtractFail(p) \/ RunSpawnFail(p) \/ RunSpawn(p) \/ RunWait(p)
    \/ UpRunReturned(p)
    \/ UpDone \/ UpAgain

UpSup ==
    \E i \in 1..MaxSups :
        \/ SupLoad(i)
        \/ SupPortsNone(i) \/ SupPortsOk(i) \/ SupPortsFail(i)
        \/ SupProxyBind(i) \/ SupProxyBindFail(i)
        \/ SupRunning(i) \/ SupMount(i) \/ SupSaveMounts(i)
        \/ SupEntrypointExit(i) \/ ProxyClose(i)
        \/ SupReload(i) \/ SupExit(i)

NextUp == UpStep("cli1") \/ UpSup

SpecUp == InitUp /\ [][NextUp]_vars

\* ============================================================== restart
\* The restart command (lbox.py, lines 1103-1134): the configuration is
\* read from the record, then eng.rm(identifier) and eng.run(...) are called
\* in the CLI process, one after the other.
MaxRestarts == 1    \* restart commands in one behaviour

\* The options of the run command that creates the container to restart.
RestartArgs ==
    [name : Names, ports : {<<>>, <<HostPort>>}, volumes : {<<>>},
     restart : {"no", "always"}, as_service : BOOLEAN, cmd : {Null, "sh"}]

\* lines 1105-1107: Container not found.
RestartNotFound(p) ==
    /\ CanIssue(p)
    /\ restart.pc = "idle"
    /\ \E ident \in Idents : load_state(state, ident) = {}
    /\ nCmds' = nCmds + 1
    /\ UNCHANGED <<host, cmds, up, disk, units, nextCid, cli, sups, execs, stage>>

\* lines 1105-1118: s = load_state(identifier); runtime and config are
\* taken from it
RestartLoad(p) ==
    /\ cli[p].pc = "idle"
    /\ restart.pc = "idle"
    /\ restart.restarts < MaxRestarts
    /\ \E ident \in Idents : \E s \in load_state(state, ident) :
          restart' = [pc |-> "rm", ident |-> ident, config |-> s, cmd |-> nCmds,
                      restarts |-> restart.restarts + 1]
    /\ UNCHANGED <<host, down, images, build, monitor, up, disk, units, nextCid, cli, sups,
                   nCmds, execs, stage>>

\* restart is at its call of eng.rm or of eng.run
RestartCalls(pc) == restart.pc = pc /\ restart.cmd = nCmds

\* line 1120: eng.rm(identifier). (The record restart has just loaded is
\* still there: only rm removes a record.)
RestartRmLoad(p) == RestartCalls("rm") /\ RmLoadIn(p, {restart.ident})

\* eng.rm has returned
RestartRmReturned(p) ==
    /\ restart.pc = "rm"
    /\ nCmds > restart.cmd
    /\ cli[p].pc = "idle"
    /\ restart' = [restart EXCEPT !.pc = "run", !.cmd = nCmds]
    /\ UNCHANGED <<host, down, images, build, monitor, up, disk, units, nextCid, cli, sups,
                   nCmds, execs, stage>>

\* lines 1121-1133: the arguments of eng.run; the record's command is
\* passed as cmd
RestartRunArgs ==
    {[name |-> restart.config.name, ports |-> restart.config.ports,
      volumes |-> restart.config.volumes, restart |-> restart.config.restart,
      as_service |-> restart.config.service_enabled, cmd |-> restart.config.command,
      envs |-> restart.config.envs]}

\* lines 1121-1133: eng.run(...). (The image archive the container was
\* created from is still in IMAGES_DIR.)
RestartRunNameTaken(p) == RestartCalls("run") /\ RunNameTaken(p, RestartRunArgs)
RestartRunPortTaken(p) == RestartCalls("run") /\ RunPortTaken(p, RestartRunArgs)
RestartRunBegin(p) == RestartCalls("run") /\ RunBegin(p, RestartRunArgs, MaxContainers)

\* eng.run has returned and so has restart
RestartDone(p) ==
    /\ restart.pc = "run"
    /\ nCmds > restart.cmd
    /\ cli[p].pc = "idle"
    /\ restart' = [restart EXCEPT !.pc = "done"]
    /\ UNCHANGED <<host, down, images, build, monitor, up, disk, units, nextCid, cli, sups,
                   nCmds, execs, stage>>

\* The run command that creates the container, then restart commands.
RestartStep(p) ==
    \/ restart.pc = "idle" /\ nextCid = 1 /\ RunBegin(p, RestartArgs, MaxContainers)
    \/ RunCreate(p) \/ RunSpawn(p) \/ RunRegister(p) \/ RunRegSave(p) \/ RunWait(p)
    \/ RestartNotFound(p) \/ RestartLoad(p)
    \/ RestartRmLoad(p)
    \/ RmStopLoad(p) \/ RmStopSave(p) \/ RmUmount(p) \/ RmRmtree(p) \/ RmRemoveState(p)
    \/ RestartRmReturned(p)
    \/ RestartRunNameTaken(p) \/ RestartRunPortTaken(p) \/ RestartRunBegin(p)
    \/ RestartDone(p)

RestartSup ==
    \E i \in 1..MaxSups :
        \/ SupLoadMissing(i) \/ SupLoad(i)
        \/ SupPortsNone(i) \/ SupPortsOk(i) \/ SupProxyBind(i) \/ SupPortsFail(i)
        \/ SupRunning(i) \/ SupMount(i) \/ SupSaveMounts(i)
        \/ SupEntrypointExit(i)
        \/ SupReloadMissing(i) \/ SupReload(i)
        \/ SupRestart(i) \/ SupExit(i)

NextRestart == RestartStep("cli1") \/ RestartSup \/ SystemdRelaunch

SpecRestart == Init /\ [][NextRestart]_vars

\* ========================================================== create down
\* lbox_create.py, down (lines 206-250): the command's position is down.pc,
\* its locals are the other fields of down; its calls of eng.stop and eng.rm
\* are executed by CLI process p.
MaxDownServices == 2    \* services of a manifest given to create down

\* remove_image_artifacts (lbox.py, lines 114-121): <tag>.tar and
\* <tag>.tar.gz are removed if they exist
remove_image_artifacts(im, tag) ==
    [im EXCEPT ![tag].tar = 0, ![tag].targz = 0]

\* One entry of the services mapping as down reads it: whether it has a
\* build section, and its image key (Null when it has none)
DownServices == [build : BOOLEAN, image : {Null, Image}]

DownManifest(keys, svcs) ==
    [i \in DOMAIN keys |-> [name |-> keys[i], build |-> svcs[i].build, image |-> svcs[i].image]]

\* line 245: image_tag = svc.get('image', f"{project_name}_{name}")
image_tag(svc) == IF svc.image # Null THEN svc.image ELSE container_name(svc.name)

\* lines 210-211: the manifest file does not exist
DownNoFile ==
    /\ down.pc = "start"
    /\ ~down.file
    /\ down' = [down EXCEPT !.pc = "nofile"]
    /\ UNCHANGED <<host, restart, images, build, monitor, up, disk, units, nextCid, cli, sups,
                   nCmds, execs, stage>>

\* os.kill(pid, signal.SIGTERM): the process of that PID, if there is one
kill(ms, pid) == [i \in DOMAIN ms |-> IF i = pid THEN FALSE ELSE ms[i]]

\* lines 212-224: the manifest is read; when the PID file exists the
\* process it names is sent SIGTERM (a failure is ignored) and the file is
\* removed
DownStart ==
    /\ down.pc = "start"
    /\ down.file
    /\ monitors' = IF pid_file # 0 THEN kill(monitors, pid_file) ELSE monitors
    /\ pid_file' = 0
    /\ down' = [down EXCEPT !.pc = "services", !.k = 1]
    /\ UNCHANGED <<profile, hostFiles, local, restart, images, build, monitor, up, disk, units, nextCid, cli, sups,
                   nCmds, execs, stage>>

\* The service the loop of lines 225-230 is at
DownAt == down.pc = "services" /\ down.k \in DOMAIN down.services
DownName == container_name(down.services[down.k].name)

\* line 227: get_id_by_name(cname) finds nothing
DownSkip ==
    /\ DownAt
    /\ get_id_by_name(state, DownName) = {}
    /\ down' = [down EXCEPT !.k = @ + 1]
    /\ UNCHANGED <<host, restart, images, build, monitor, up, disk, units, nextCid, cli, sups,
                   nCmds, execs, stage>>

\* lines 227-229: the container exists; eng.stop(cname) is called
DownStop ==
    /\ DownAt
    /\ get_id_by_name(state, DownName) # {}
    /\ down' = [down EXCEPT !.pc = "stop", !.target = DownName, !.back = "services",
                            !.cmd = nCmds]
    /\ UNCHANGED <<host, restart, images, build, monitor, up, disk, units, nextCid, cli, sups,
                   nCmds, execs, stage>>

\* down is at its call of eng.stop or of eng.rm
DownCalls(pc) == down.pc = pc /\ down.cmd = nCmds

\* lines 229 and 237: eng.stop(cname)
DownStopLoad(p) == DownCalls("stop") /\ StopLoadIn(p, {down.target})

\* eng.stop has returned
DownStopReturned(p) ==
    /\ down.pc = "stop"
    /\ nCmds > down.cmd
    /\ cli[p].pc = "idle"
    /\ down' = [down EXCEPT !.pc = "rm", !.cmd = nCmds]
    /\ UNCHANGED <<host, restart, images, build, monitor, up, disk, units, nextCid, cli, sups,
                   nCmds, execs, stage>>

\* lines 230 and 238: eng.rm(cname)
DownRmLoad(p) == DownCalls("rm") /\ RmLoadIn(p, {down.target})

\* eng.rm has returned; the loop goes on
DownRmReturned(p) ==
    /\ down.pc = "rm"
    /\ nCmds > down.cmd
    /\ cli[p].pc = "idle"
    /\ down' = [down EXCEPT !.pc = down.back, !.target = Null,
                            !.k = IF down.back = "services" THEN @ + 1 ELSE @]
    /\ UNCHANGED <<host, restart, images, build, monitor, up, disk, units, nextCid, cli, sups,
                   nCmds, execs, stage>>

\* lines 232-235: after the loop; with --remove-orphans the project's
\* containers are listed and those the manifest does not define are kept
DownServicesDone ==
    /\ down.pc = "services"
    /\ down.k > Len(down.services)
    /\ down' = [down EXCEPT
                  !.pc = IF down.remove_orphans THEN "orphans" ELSE "rmi",
                  !.k = 1,
                  !.orphans = IF down.remove_orphans
                              THEN list_project_containers(state)
                                     \ {container_name(n) : n \in Defined(down.services)}
                              ELSE {}]
    /\ UNCHANGED <<host, restart, images, build, monitor, up, disk, units, nextCid, cli, sups,
                   nCmds, execs, stage>>

\* lines 234-237: the next orphan; eng.stop(cname) is called
DownOrphanStop ==
    /\ down.pc = "orphans"
    /\ \E cname \in down.orphans :
          down' = [down EXCEPT !.pc = "stop", !.target = cname, !.back = "orphans",
                               !.orphans = @ \ {cname}, !.cmd = nCmds]
    /\ UNCHANGED <<host, restart, images, build, monitor, up, disk, units, nextCid, cli, sups,
                   nCmds, execs, stage>>

\* lines 234-240: no orphan is left
DownOrphansDone ==
    /\ down.pc = "orphans"
    /\ down.orphans = {}
    /\ down' = [down EXCEPT !.pc = "rmi", !.k = 1]
    /\ UNCHANGED <<host, restart, images, build, monitor, up, disk, units, nextCid, cli, sups,
                   nCmds, execs, stage>>

\* line 240: rmi is none; down returns
DownRmiNone ==
    /\ down.pc = "rmi"
    /\ down.rmi = "none"
    /\ down' = [down EXCEPT !.pc = "done"]
    /\ UNCHANGED <<host, restart, images, build, monitor, up, disk, units, nextCid, cli, sups,
                   nCmds, execs, stage>>

\* lines 242-243: --rmi=local and the service has no build section
DownRmiSkip ==
    /\ down.pc = "rmi"
    /\ down.rmi = "local"
    /\ down.k \in DOMAIN down.services
    /\ ~down.services[down.k].build
    /\ down' = [down EXCEPT !.k = @ + 1]
    /\ UNCHANGED <<host, restart, images, build, monitor, up, disk, units, nextCid, cli, sups,
                   nCmds, execs, stage>>

\* lines 244-246: remove_image_artifacts(image_tag)
DownRmiRemove ==
    /\ down.pc = "rmi"
    /\ down.rmi # "none"
    /\ down.k \in DOMAIN down.services
    /\ down.rmi = "local" => down.services[down.k].build
    /\ images' = remove_image_artifacts(images, image_tag(down.services[down.k]))
    /\ down' = [down EXCEPT !.k = @ + 1]
    /\ UNCHANGED <<host, restart, build, monitor, up, disk, units, nextCid, cli, sups,
                   nCmds, execs, stage>>

\* lines 241-250: the loop over the services is over; down returns
DownRmiDone ==
    /\ down.pc = "rmi"
    /\ down.rmi # "none"
    /\ down.k > Len(down.services)
    /\ down' = [down EXCEPT !.pc = "done"]
    /\ UNCHANGED <<host, restart, images, build, monitor, up, disk, units, nextCid, cli, sups,
                   nCmds, execs, stage>>

\* The artifacts a tag has in IMAGES_DIR: none, those of build (archive and
\* sidecar), or those of a download or an import (archive only).
Built == [tar |-> 1, targz |-> 0, json |-> 1]
Downloaded == [tar |-> 1, targz |-> 0, json |-> 0]

\* down's steps of its own
DownOwn ==
    \/ DownNoFile \/ DownStart
    \/ DownSkip \/ DownStop \/ DownServicesDone
    \/ DownOrphanStop \/ DownOrphansDone
    \/ DownRmiNone \/ DownRmiSkip \/ DownRmiRemove \/ DownRmiDone

\* create down with no container in the store: any manifest of at most
\* MaxDownServices services, any options, any artifacts of the tags.
InitRmi ==
    /\ NoContainer
    /\ restart = RestartIdle /\ build = BuildIdle /\ monitor = MonitorIdle
    /\ images \in [Tags -> {NoArtifacts, Built, Downloaded}]
    /\ \E keys \in KeyOrders(ServiceNames(MaxDownServices), MaxDownServices) :
       \E svcs \in [DOMAIN keys -> DownServices] :
       \E rmi \in {"none", "local", "all"} :
       \E ro \in BOOLEAN :
       \E file \in BOOLEAN :
          /\ ~file => keys = <<>> /\ rmi = "none" /\ ~ro
          /\ down = [DownIdle EXCEPT !.pc = "start", !.file = file, !.rmi = rmi,
                         !.remove_orphans = ro, !.services = DownManifest(keys, svcs)]

NextRmi ==
    \/ DownNoFile \/ DownStart
    \/ DownSkip \/ DownServicesDone \/ DownOrphansDone
    \/ DownRmiNone \/ DownRmiSkip \/ DownRmiRemove \/ DownRmiDone

SpecRmi == InitRmi /\ [][NextRmi]_vars

\* create down after a run that created a project container (as up does):
\* the manifest's services have no image key and every tag was built.
DownRunArgs ==
    [name : {container_name(n) : n \in ServiceNames(MaxDownServices)}, ports : {<<>>},
     volumes : {<<>>}, restart : {"no", "always"}, as_service : {FALSE}, cmd : {Null}]

InitDown ==
    /\ NoContainer
    /\ restart = RestartIdle /\ build = BuildIdle /\ monitor = MonitorIdle
    /\ images = [tag \in Tags |-> Built]
    /\ \E keys \in KeyOrders(ServiceNames(MaxDownServices), MaxDownServices) :
       \E builds \in [DOMAIN keys -> BOOLEAN] :
       \E rmi \in {"none", "local", "all"} :
       \E ro \in BOOLEAN :
          down = [DownIdle EXCEPT !.pc = "start", !.file = TRUE, !.rmi = rmi,
                     !.remove_orphans = ro,
                     !.services = DownManifest(keys,
                         [i \in DOMAIN keys |-> [build |-> builds[i], image |-> Null]])]

DownStep(p) ==
    \/ down.pc = "start" /\ nextCid = 1 /\ RunBegin(p, DownRunArgs, MaxLifeContainers)
    \/ RunCreate(p) \/ RunSpawn(p) \/ RunWait(p)
    \/ cli[p].pc = "idle" /\ DownOwn
    \/ DownStopLoad(p) \/ StopSave(p) \/ DownStopReturned(p)
    \/ DownRmLoad(p)
    \/ RmStopLoad(p) \/ RmStopSave(p) \/ RmUmount(p) \/ RmRmtree(p) \/ RmRemoveState(p)
    \/ DownRmReturned(p)

DownSup ==
    \E i \in 1..MaxSups :
        \/ SupLoadMissing(i) \/ SupLoad(i)
        \/ SupPortsNone(i)
        \/ SupRunning(i) \/ SupMount(i) \/ SupSaveMounts(i)
        \/ SupEntrypointExit(i)
        \/ SupReloadMissing(i) \/ SupReload(i)
        \/ SupRestart(i) \/ SupExit(i)

NextDown == DownStep("cli1") \/ DownSup

SpecDown == InitDown /\ [][NextDown]_vars

\* ================================================================ build
\* The build command (lbox.py, lines 1065-1081) and LinuxEngine.build
\* (lines 717-758). build.root: the scratch root exists; build.failure: what
\* raised; build.rc: the exit status of the command's process; build.before:
\* the artifacts of the tag when the command started.
MaxSteps == 2    \* steps of an instruction file

StepKinds == {"COPY", "EXEC", "ENV", "DIR", "START"}

\* The instruction files of at most n steps
Instructions(n) == UNION {[1..l -> StepKinds] : l \in 0..n}

\* A file written anew: its next content
Written(v) == v + 1

\* lines 1069-1070: neither <path>/lbox nor <path>/app.lbox exists
BuildNoFile ==
    /\ build.pc = "start"
    /\ ~build.file
    /\ build' = [build EXCEPT !.pc = "done", !.rc = 0]
    /\ UNCHANGED <<host, restart, down, images, monitor, up, disk, units, nextCid, cli, sups,
                   nCmds, execs, stage>>

\* line 718, check_reqs: not root, sys.exit("Error: Run as sudo.")
BuildNotRoot ==
    /\ build.pc = "start"
    /\ build.file
    /\ ~build.euid0
    /\ build' = [build EXCEPT !.pc = "done", !.rc = 1]
    /\ UNCHANGED <<host, restart, down, images, monitor, up, disk, units, nextCid, cli, sups,
                   nCmds, execs, stage>>

\* lines 718-723: the scratch root is created, meta = {cmd: None, workdir: "/"}
BuildBegin ==
    /\ build.pc = "start"
    /\ build.file
    /\ build.euid0
    /\ build' = [build EXCEPT !.pc = "base", !.root = TRUE,
                              !.meta = [cmd |-> Null, workdir |-> "/"]]
    /\ UNCHANGED <<host, restart, down, images, monitor, up, disk, units, nextCid, cli, sups,
                   nCmds, execs, stage>>

\* lines 725-726: raise Exception("Base image missing.")
BuildBaseMissing ==
    /\ build.pc = "base"
    /\ ~build.base
    /\ build' = [build EXCEPT !.pc = "except", !.failure = "base"]
    /\ UNCHANGED <<host, restart, down, images, monitor, up, disk, units, nextCid, cli, sups,
                   nCmds, execs, stage>>

\* lines 725-728: the base image is extracted into the scratch root
BuildBase ==
    /\ build.pc = "base"
    /\ build.base
    /\ build' = [build EXCEPT !.pc = "steps", !.k = 1]
    /\ UNCHANGED <<host, restart, down, images, monitor, up, disk, units, nextCid, cli, sups,
                   nCmds, execs, stage>>

\* The step the loop of lines 730-752 is at
BuildAt == build.pc = "steps" /\ build.k \in DOMAIN build.steps

\* lines 732-752: a step is carried out; DIR and START set the metadata
BuildStep ==
    /\ BuildAt
    /\ LET cmd == build.steps[build.k]
       IN build' = [build EXCEPT
                      !.k = @ + 1,
                      !.meta = IF cmd = "DIR" THEN [@ EXCEPT !.workdir = "/app"]
                               ELSE IF cmd = "START" THEN [@ EXCEPT !.cmd = "serve"]
                               ELSE @]
    /\ UNCHANGED <<host, restart, down, images, monitor, up, disk, units, nextCid, cli, sups,
                   nCmds, execs, stage>>

\* lines 732-745: the step raises: the copy fails, or the command of an
\* EXEC or ENV step exits non-zero (check_call)
BuildStepFails ==
    /\ BuildAt
    /\ build.steps[build.k] \in {"COPY", "EXEC", "ENV"}
    /\ build' = [build EXCEPT !.pc = "except", !.failure = "step"]
    /\ UNCHANGED <<host, restart, down, images, monitor, up, disk, units, nextCid, cli, sups,
                   nCmds, execs, stage>>

\* line 754: <tag>.tar is written from the scratch root
BuildWriteTar ==
    /\ build.pc = "steps"
    /\ build.k > Len(build.steps)
    /\ images' = [images EXCEPT ![build.tag].tar = Written(@)]
    /\ build' = [build EXCEPT !.pc = "json"]
    /\ UNCHANGED <<host, restart, down, monitor, up, disk, units, nextCid, cli, sups,
                   nCmds, execs, stage>>

\* line 754: writing the archive raises (the disk is full) after the file
\* was opened for writing
BuildWriteTarFails ==
    /\ build.pc = "steps"
    /\ build.k > Len(build.steps)
    /\ images' = [images EXCEPT ![build.tag].tar = Written(@)]
    /\ build' = [build EXCEPT !.pc = "except", !.failure = "write"]
    /\ UNCHANGED <<host, restart, down, monitor, up, disk, units, nextCid, cli, sups,
                   nCmds, execs, stage>>

\* lines 755-756: <tag>.json is written; Success
BuildWriteJson ==
    /\ build.pc = "json"
    /\ images' = [images EXCEPT ![build.tag].json = Written(@)]
    /\ build' = [build EXCEPT !.pc = "finally"]
    /\ UNCHANGED <<host, restart, down, monitor, up, disk, units, nextCid, cli, sups,
                   nCmds, execs, stage>>

\* line 757: except Exception as e: print(f"Build Failed: {e}")
BuildExcept ==
    /\ build.pc = "except"
    /\ build' = [build EXCEPT !.pc = "finally"]
    /\ UNCHANGED <<host, restart, down, images, monitor, up, disk, units, nextCid, cli, sups,
                   nCmds, execs, stage>>

\* lines 757-758, 1081: eng.build returns None whether or not it failed,
\* and the command ends with status 0
BuildStatus(failure) == 0

\* line 758 and 1081: finally: shutil.rmtree(root, ignore_errors=True);
\* eng.build returns and the command ends
BuildFinally ==
    /\ build.pc = "finally"
    /\ build' = [build EXCEPT !.pc = "done", !.root = FALSE, !.rc = BuildStatus(build.failure)]
    /\ UNCHANGED <<host, restart, down, images, monitor, up, disk, units, nextCid, cli, sups,
                   nCmds, execs, stage>>

\* One build command: any instruction file of at most MaxSteps steps, for a
\* tag that has no artifact yet or was built before; the base image is
\* there or not, the user is root or not.
InitBuild ==
    /\ NoContainer
    /\ restart = RestartIdle /\ down = DownIdle /\ monitor = MonitorIdle
    /\ images \in [Tags -> {NoArtifacts, Built}]
    /\ \E tag \in Tags :
       \E steps \in Instructions(MaxSteps) :
       \E file, euid0, base \in BOOLEAN :
          build = [BuildIdle EXCEPT !.pc = "start", !.tag = tag, !.steps = steps,
                      !.file = file, !.euid0 = euid0, !.base = base,
                      !.before = images[tag]]

NextBuild ==
    \/ BuildNoFile \/ BuildNotRoot \/ BuildBegin
    \/ BuildBaseMissing \/ BuildBase
    \/ BuildStep \/ BuildStepFails
    \/ BuildWriteTar \/ BuildWriteTarFails \/ BuildWriteJson
    \/ BuildExcept \/ BuildFinally

SpecBuild == InitBuild /\ [][NextBuild]_vars

\* ======================================================= monitor_daemon
\* The auto-update monitor (lbox.py, lines 968-1056): one process, started
\* by create up; its position is monitor.pc, its locals are last_state, the
\* loop index k and should_update; its calls of eng.stop, eng.rm and
\* eng.run use the locals of CLI process p. monitor.seen keeps, for each
\* service, the value of its last observation (Null before the first), and
\* monitor.obs the observation just made with the one before it.
MaxCycles == 2    \* polling cycles of the monitor after its first

\* The service names of the manifests the monitor reads, and the values a
\* source (Last-Modified header or hash of the instruction file) takes.
MonitorNames == {"db", "web", "web_init"}
Headers == {"h1", "h2"}

\* The keys of last_state: name and f"{name}_init"
init_key(name) == name \o "_init"
LastStateKeys == MonitorNames \cup {init_key(n) : n \in MonitorNames}

\* The services with auto-update enabled, in file order; url: the entry has
\* an url (remote check and download) or not (local check and build).
MonitorManifest(keys, urls) ==
    [i \in DOMAIN keys |-> [name |-> keys[i], url |-> urls[i]]]

\* lines 977-981, 1053-1054: reading config_path raises; the error is
\* printed
MonitorReloadFails ==
    /\ monitor.pc = "start"
    /\ monitor' = [monitor EXCEPT !.pc = "sleep"]
    /\ UNCHANGED <<host, restart, down, images, build, up, disk, units, nextCid, cli, sups,
                   nCmds, execs, stage>>

\* lines 977-983: the manifest is read
MonitorReload ==
    /\ monitor.pc = "start"
    /\ monitor' = [monitor EXCEPT !.pc = "services", !.k = 1]
    /\ UNCHANGED <<host, restart, down, images, build, up, disk, units, nextCid, cli, sups,
                   nCmds, execs, stage>>

\* The service the loop of lines 983-1051 is at
MonitorAt == monitor.pc = "services" /\ monitor.k \in DOMAIN monitor.services
MonitorSvc == monitor.services[monitor.k]

\* lines 987-990: the service has no container; continue
MonitorSkip ==
    /\ MonitorAt
    /\ get_id_by_name(state, container_name(MonitorSvc.name)) = {}
    /\ monitor' = [monitor EXCEPT !.k = @ + 1]
    /\ UNCHANGED <<host, restart, down, images, build, up, disk, units, nextCid, cli, sups,
                   nCmds, execs, stage>>

\* lines 998 and 1010: get_remote_header returns None, or the instruction
\* file does not exist: nothing is observed
MonitorNoValue ==
    /\ MonitorAt
    /\ get_id_by_name(state, container_name(MonitorSvc.name)) # {}
    /\ monitor' = [monitor EXCEPT !.k = @ + 1]
    /\ UNCHANGED <<host, restart, down, images, build, up, disk, units, nextCid, cli, sups,
                   nCmds, execs, stage>>

\* lines 999-1004 and 1012-1016: the value differs from last_state.get(name):
\* it is stored under name, should_update is set if last_state has a truthy
\* value under f"{name}_init", and True is stored under f"{name}_init"
Observe(last_state, name, value) ==
    IF last_state[name] # value
    THEN LET recorded == [last_state EXCEPT ![name] = value]
         IN [last_state |-> [recorded EXCEPT ![init_key(name)] = "True"],
             should_update |-> recorded[init_key(name)] # Null]
    ELSE [last_state |-> last_state, should_update |-> FALSE]

\* lines 993-1016: the source's value is observed
MonitorObserve ==
    /\ MonitorAt
    /\ get_id_by_name(state, container_name(MonitorSvc.name)) # {}
    /\ \E value \in Headers :
          LET name == MonitorSvc.name
              r == Observe(monitor.last_state, name, value)
          IN monitor' = [monitor EXCEPT
                           !.pc = "decided",
                           !.last_state = r.last_state,
                           !.should_update = r.should_update,
                           !.obs = [name |-> name, value |-> value,
                                    previous |-> monitor.seen[name]],
                           !.seen = [@ EXCEPT ![name] = value]]
    /\ UNCHANGED <<host, restart, down, images, build, up, disk, units, nextCid, cli, sups,
                   nCmds, execs, stage>>

\* line 1018: should_update is False; the loop goes on
MonitorNoUpdate ==
    /\ monitor.pc = "decided"
    /\ ~monitor.should_update
    /\ monitor' = [monitor EXCEPT !.pc = "services", !.k = @ + 1]
    /\ UNCHANGED <<host, restart, down, images, build, up, disk, units, nextCid, cli, sups,
                   nCmds, execs, stage>>

\* lines 1024-1027, 1053-1054: urlretrieve raises; the error is printed and
\* the rest of the cycle is left out
MonitorDownloadFails ==
    /\ monitor.pc = "decided"
    /\ monitor.should_update
    /\ monitor.services[monitor.k].url
    /\ monitor' = [monitor EXCEPT !.pc = "sleep", !.should_update = FALSE]
    /\ UNCHANGED <<host, restart, down, images, build, up, disk, units, nextCid, cli, sups,
                   nCmds, execs, stage>>

\* lines 1024-1027: the archive is downloaded to <image_tag>.tar;
\* eng.stop(container_name) is called next
MonitorDownload ==
    /\ monitor.pc = "decided"
    /\ monitor.should_update
    /\ monitor.services[monitor.k].url
    /\ images' = [images EXCEPT ![Image].tar = Written(@)]
    /\ monitor' = [monitor EXCEPT !.pc = "stop", !.cmd = nCmds]
    /\ UNCHANGED <<host, restart, down, build, up, disk, units, nextCid, cli, sups,
                   nCmds, execs, stage>>

\* lines 1028-1029: the build command is run as a subprocess and its exit
\* status is not looked at; it has written the image's artifacts or it has
\* failed before writing. eng.stop(container_name) is called next
MonitorBuild ==
    /\ monitor.pc = "decided"
    /\ monitor.should_update
    /\ ~monitor.services[monitor.k].url
    /\ \/ images' = [images EXCEPT ![Image].tar = Written(@), ![Image].json = Written(@)]
       \/ images' = images
    /\ monitor' = [monitor EXCEPT !.pc = "stop", !.cmd = nCmds]
    /\ UNCHANGED <<host, restart, down, build, up, disk, units, nextCid, cli, sups,
                   nCmds, execs, stage>>

\* the monitor is at its call of eng.stop, eng.rm or eng.run
MonitorCalls(pc) == monitor.pc = pc /\ monitor.cmd = nCmds

\* line 1031: eng.stop(container_name)
MonitorStopLoad(p) ==
    MonitorCalls("stop") /\ StopLoadIn(p, {container_name(monitor.services[monitor.k].name)})

\* lines 1031-1033: eng.stop has returned; time.sleep(2); eng.rm is called
MonitorStopReturned(p) ==
    /\ monitor.pc = "stop"
    /\ nCmds > monitor.cmd
    /\ cli[p].pc = "idle"
    /\ monitor' = [monitor EXCEPT !.pc = "rm", !.cmd = nCmds]
    /\ UNCHANGED <<host, restart, down, images, build, up, disk, units, nextCid, cli, sups,
                   nCmds, execs, stage>>

\* line 1033: eng.rm(container_name)
MonitorRmLoad(p) ==
    MonitorCalls("rm") /\ RmLoadIn(p, {container_name(monitor.services[monitor.k].name)})

\* lines 1033-1039: eng.rm has returned; eng.run is called
MonitorRmReturned(p) ==
    /\ monitor.pc = "rm"
    /\ nCmds > monitor.cmd
    /\ cli[p].pc = "idle"
    /\ monitor' = [monitor EXCEPT !.pc = "run", !.cmd = nCmds]
    /\ UNCHANGED <<host, restart, down, images, build, up, disk, units, nextCid, cli, sups,
                   nCmds, execs, stage>>

\* lines 1039-1050: the arguments of eng.run
MonitorRunArgs ==
    {[name |-> container_name(monitor.services[monitor.k].name), ports |-> <<>>,
      volumes |-> <<>>, restart |-> "no", as_service |-> FALSE, cmd |-> Null]}

\* LinuxEngine.check_reqs, line 701: sys.exit("Error: Run as sudo.") unless
\* the effective user is root
check_reqs(euid0) == IF euid0 THEN "passes" ELSE "SystemExit"

\* lines 1039 and 761: check_reqs raises SystemExit, which 'except
\* Exception' (line 1053) does not catch: the monitor process ends
MonitorRunExits ==
    /\ MonitorCalls("run")
    /\ check_reqs(monitor.euid0) = "SystemExit"
    /\ monitor' = [monitor EXCEPT !.pc = "exited"]
    /\ UNCHANGED <<host, restart, down, images, build, up, disk, units, nextCid, cli, sups,
                   nCmds, execs, stage>>

\* lines 1039-1050: eng.run(...). (eng.rm has just removed the record of
\* that name and the container had no supervisor to write it again.)
MonitorRuns == MonitorCalls("run") /\ check_reqs(monitor.euid0) = "passes"
MonitorRunImageMissing(p) == MonitorRuns /\ RunImageMissing(p, MonitorRunArgs)
MonitorRunBegin(p) == MonitorRuns /\ RunBegin(p, MonitorRunArgs, MaxContainers)

\* lines 1050-1051: eng.run has returned, whatever it did; the loop goes on
MonitorRunReturned(p) ==
    /\ monitor.pc = "run"
    /\ nCmds > monitor.cmd
    /\ cli[p].pc = "idle"
    /\ monitor' = [monitor EXCEPT !.pc = "services", !.k = @ + 1, !.should_update = FALSE]
    /\ UNCHANGED <<host, restart, down, images, build, up, disk, units, nextCid, cli, sups,
                   nCmds, execs, stage>>

\* line 983: the loop over the services is over
MonitorServicesDone ==
    /\ monitor.pc = "services"
    /\ monitor.k > Len(monitor.services)
    /\ monitor' = [monitor EXCEPT !.pc = "sleep"]
    /\ UNCHANGED <<host, restart, down, images, build, up, disk, units, nextCid, cli, sups,
                   nCmds, execs, stage>>

\* line 1056 and 976: time.sleep(10), then the next cycle
MonitorSleep ==
    /\ monitor.pc = "sleep"
    /\ monitor.cycles < MaxCycles
    /\ monitor' = [monitor EXCEPT !.pc = "start", !.cycles = @ + 1]
    /\ UNCHANGED <<host, restart, down, images, build, up, disk, units, nextCid, cli, sups,
                   nCmds, execs, stage>>

\* A container of the project that has exited: created by an earlier up
\* whose run could not spawn the supervisor (record saved, root removed
\* again) and stopped since.
MonitorLeftover(cid, n) ==
    [NewState(cid, container_name(n), <<>>, <<>>, "no", FALSE, Null) EXCEPT !.status = "exited"]

\* The monitor starts with an empty last_state, on a manifest of one or two
\* auto-update services of which the first 'have' have a container; the
\* image was built; the monitor runs as root or, when create up was given
\* without sudo on a store its user can write, as that user.
InitMonitor ==
    /\ roots = {}
    /\ bindDepth = [c \in CIDs |-> 0]
    /\ procDepth = [c \in CIDs |-> 0]
    /\ units = [u \in {} |-> [cid |-> Null, active |-> FALSE]]
    /\ cli = [p \in Procs |-> IdleCli]
    /\ sups = <<>>
    /\ HostIdle
    /\ nCmds = 0
    /\ execs = [c \in CIDs |-> 0]
    /\ stage = [c \in CIDs |-> "none"]
    /\ up = UpIdle
    /\ restart = RestartIdle /\ down = DownIdle /\ build = BuildIdle
    /\ images = [NoImages EXCEPT ![Image] = Built]
    /\ \E keys \in KeyOrders(MonitorNames, MaxContainers) :
       \E urls \in [DOMAIN keys -> BOOLEAN] :
       \E have \in 0..Len(keys) :
       \E euid0 \in BOOLEAN :
          /\ keys # <<>>
          /\ state = [c \in {CidSeq[i] : i \in 1..have} |->
                         MonitorLeftover(c, keys[CHOOSE i \in 1..have : CidSeq[i] = c])]
          /\ nextCid = have + 1
          /\ monitor = [MonitorIdle EXCEPT
                           !.pc = "start", !.euid0 = euid0,
                           !.services = MonitorManifest(keys, urls),
                           !.last_state = [key \in LastStateKeys |-> Null],
                           !.seen = [n \in MonitorNames |-> Null]]

MonitorStep(p) ==
    \/ MonitorReloadFails \/ MonitorReload
    \/ MonitorSkip \/ MonitorNoValue \/ MonitorObserve
    \/ MonitorNoUpdate \/ MonitorDownloadFails \/ MonitorDownload \/ MonitorBuild
    \/ MonitorStopLoad(p) \/ StopSave(p) \/ MonitorStopReturned(p)
    \/ MonitorRmLoad(p)
    \/ RmStopLoad(p) \/ RmStopSave(p) \/ RmUmount(p) \/ RmRmtree(p) \/ RmRemoveState(p)
    \/ MonitorRmReturned(p)
    \/ MonitorRunExits
    \/ MonitorRunImageMissing(p) \/ MonitorRunBegin(p)
    \/ RunCreate(p) \/ RunSpawn(p) \/ RunWait(p)
    \/ MonitorRunReturned(p)
    \/ MonitorServicesDone \/ MonitorSleep

\* The supervisor of the container the update has run (nothing removes
\* its record here).
MonitorSup ==
    \E i \in 1..MaxSups :
        \/ SupLoad(i)
        \/ SupPortsNone(i)
        \/ SupRunning(i) \/ SupMount(i) \/ SupSaveMounts(i)
        \/ SupEntrypointExit(i)
        \/ SupReload(i)
        \/ SupExit(i)

NextMonitor == MonitorStep("cli1") \/ MonitorSup

SpecMonitor == InitMonitor /\ [][NextMonitor]_vars

\* ========================================================== environment
\* run with -e entries (LinuxEngine.run stores them in the record, line
\* 786) and rm, with the supervisors of the containers. On this backend
\* internal_daemon (lines 918-933) mounts the volumes and runs the
\* entrypoint; it does not read s['envs'], and nothing else writes the
\* profile under the root after the image was extracted.
EnvEntry == "KEY=value"

EnvArgs ==
    [name : {Null}, ports : {<<>>}, volumes : {<<>>},
     restart : {"no", "always"}, as_service : {FALSE}, cmd : {Null},
     envs : {<<>>, <<EnvEntry>>}]

EnvCli ==
    \E p \in {"cli1"} :
        \/ RunBegin(p, EnvArgs, MaxLifeContainers)
        \/ RunCreate(p) \/ RunSpawn(p) \/ RunWait(p)
        \/ RmLoad(p) \/ RmStopLoad(p) \/ RmStopSave(p)
        \/ RmUmount(p) \/ RmRmtree(p) \/ RmRemoveState(p)

EnvSup ==
    \E i \in 1..MaxSups :
        \/ SupLoadMissing(i) \/ SupLoad(i)
        \/ SupPortsNone(i)
        \/ SupRunning(i) \/ SupMount(i) \/ SupSaveMounts(i)
        \/ SupEntrypointExit(i)
        \/ SupReloadMissing(i) \/ SupReload(i)
        \/ SupRestart(i) \/ SupExit(i)

NextEnv == EnvCli \/ EnvSup

SpecEnv == Init /\ [][NextEnv]_vars

\* ======================================================= up with --build
\* create up --build for services that have a build section and no image
\* key (lbox_create.py, lines 105-119): the build command runs as a
\* subprocess of up, with up's own user; up.failed collects the services
\* whose build raised or ended with a non-zero status.

\* image_exists (lbox.py, lines 108-112)
image_exists(im, tag) == im[tag].tar # 0 \/ im[tag].targz # 0

\* lines 110-112: subprocess.call([..., "build", "-t", image_tag, path])
UpBuild ==
    /\ up.pc = "loop" /\ UpAt
    /\ \E steps \in Instructions(1) :
       \E file, base \in BOOLEAN :
          build' = [BuildIdle EXCEPT !.pc = "start", !.tag = container_name(UpName),
                       !.steps = steps, !.file = file, !.base = base,
                       !.euid0 = build.euid0, !.before = images[container_name(UpName)]]
    /\ up' = [up EXCEPT !.pc = "build"]
    /\ UNCHANGED <<host, restart, down, images, monitor, disk, units, nextCid, cli, sups,
                   nCmds, execs, stage>>

\* lines 113-115: rc != 0; the service is skipped
UpBuildFailed ==
    /\ up.pc = "build" /\ UpAt
    /\ build.pc = "done"
    /\ build.rc # 0
    /\ up' = [up EXCEPT !.pc = "loop", !.k = @ + 1, !.failed = @ \cup {UpName}]
    /\ UNCHANGED <<host, cmds, disk, units, nextCid, cli, sups, nCmds, execs, stage>>

\* line 113: rc = 0, whether or not eng.build printed Build Failed
UpBuildReturned ==
    /\ up.pc = "build" /\ UpAt
    /\ build.pc = "done"
    /\ build.rc = 0
    /\ up' = [up EXCEPT !.pc = "image",
                 !.failed = IF build.failure # "none" THEN @ \cup {UpName} ELSE @]
    /\ UNCHANGED <<host, cmds, disk, units, nextCid, cli, sups, nCmds, execs, stage>>

\* lines 117-119: no archive of the tag; the service is skipped
UpImageMissing ==
    /\ up.pc = "image" /\ UpAt
    /\ ~image_exists(images, container_name(UpName))
    /\ up' = [up EXCEPT !.pc = "loop", !.k = @ + 1]
    /\ UNCHANGED <<host, cmds, disk, units, nextCid, cli, sups, nCmds, execs, stage>>

\* line 117: an archive of the tag exists
UpImageFound ==
    /\ up.pc = "image" /\ UpAt
    /\ image_exists(images, container_name(UpName))
    /\ up' = [up EXCEPT !.pc = "checked"]
    /\ UNCHANGED <<host, cmds, disk, units, nextCid, cli, sups, nCmds, execs, stage>>

\* up --build on an empty store: each tag was built before or not, the
\* user is root or not, no service has dependencies or ports.
InitUpBuild ==
    /\ state = [c \in {} |-> NoState] /\ nextCid = 1
    /\ roots = {}
    /\ bindDepth = [c \in CIDs |-> 0]
    /\ procDepth = [c \in CIDs |-> 0]
    /\ units = [u \in {} |-> [cid |-> Null, active |-> FALSE]]
    /\ cli = [p \in Procs |-> IdleCli]
    /\ sups = <<>>
    /\ HostIdle
    /\ nCmds = 0
    /\ execs = [c \in CIDs |-> 0]
    /\ stage = [c \in CIDs |-> "none"]
    /\ restart = RestartIdle /\ down = DownIdle /\ monitor = MonitorIdle
    /\ images \in {im \in [Tags -> {NoArtifacts, Built}] : im[Image] = NoArtifacts}
    /\ \E euid0 \in BOOLEAN : build = [BuildIdle EXCEPT !.euid0 = euid0]
    /\ \E keys \in KeyOrders(ServiceNames(MaxUpServices), MaxUpServices) :
          up = [UpIdle EXCEPT !.pc = "start", !.ups = 1,
                   !.services = Manifest(keys, [i \in DOMAIN keys |->
                                                   [depends_on |-> {}, deps_ok |-> TRUE]],
                                         [i \in DOMAIN keys |-> <<>>])]

UpBuildStep(p) ==
    \/ UpNoServices \/ UpOrdered
    \/ UpBuild \/ UpBuildFailed \/ UpBuildReturned
    \/ UpImageMissing \/ UpImageFound
    \/ UpRunAt("checked")
    \/ UpRunBegin(p)
    \/ RunCreate(p) \/ RunSpawn(p) \/ RunWait(p)
    \/ UpRunReturned(p)
    \/ UpDone

UpBuildSup ==
    \E i \in 1..MaxSups :
        \/ SupLoad(i)
        \/ SupPortsNone(i)
        \/ SupRunning(i) \/ SupMount(i) \/ SupSaveMounts(i)
        \/ SupEntrypointExit(i)
        \/ SupReload(i) \/ SupExit(i)

NextUpBuild == UpBuildStep("cli1") \/ NextBuild \/ UpBuildSup

SpecUpBuild == InitUpBuild /\ [][NextUpBuild]_vars

\* ===================================================== up, down, monitor
\* create up and create down one after the other on a manifest of one
\* service that may have auto-update enabled (lbox_create.py, lines
\* 181-204 and 217-226), with the monitor processes up spawns.
ComposeManifest(keys, au) ==
    [i \in DOMAIN keys |->
        [name |-> keys[i], depends_on |-> {}, deps_ok |-> TRUE, ports |-> <<>>,
         auto_update |-> au[i]]]

\* The loop of lines 105-151 is over and needs_monitor is true
UpNeedsMonitor ==
    /\ up.pc = "loop"
    /\ up.k > Len(up.ordered_services)
    /\ up.needs_monitor

\* lines 185-186: the PID file exists: "Monitor already active."
UpMonitorActive ==
    /\ UpNeedsMonitor
    /\ pid_file # 0
    /\ up' = [up EXCEPT !.pc = "done",
                        !.after_first = IF up.ups = 1 THEN RecordSet ELSE @]
    /\ UNCHANGED <<host, cmds, disk, units, nextCid, cli, sups, nCmds, execs, stage>>

\* lines 187-201: no PID file; the monitor is spawned (Popen)
UpMonitorSpawn ==
    /\ UpNeedsMonitor
    /\ pid_file = 0
    /\ monitors' = Append(monitors, TRUE)
    /\ up' = [up EXCEPT !.pc = "pid_write", !.pid = Len(monitors) + 1]
    /\ UNCHANGED <<profile, hostFiles, local, pid_file, cmds, disk, units, nextCid, cli, sups,
                   nCmds, execs, stage>>

\* lines 202-204: the PID of the monitor is written to the PID file
UpMonitorPidWrite ==
    /\ up.pc = "pid_write"
    /\ pid_file' = up.pid
    /\ up' = [up EXCEPT !.pc = "done",
                        !.after_first = IF up.ups = 1 THEN RecordSet ELSE @]
    /\ UNCHANGED <<profile, hostFiles, local, monitors, cmds, disk, units, nextCid, cli, sups,
                   nCmds, execs, stage>>

\* A monitor process ends by itself: check_reqs' SystemExit passes 'except
\* Exception' (lbox.py, lines 701, 761 and 1053), or the process is killed.
MonitorEnds ==
    /\ \E pid \in DOMAIN monitors :
          /\ monitors[pid]
          /\ monitors' = kill(monitors, pid)
    /\ UNCHANGED <<profile, hostFiles, local, pid_file, cmds, up, disk, units, nextCid, cli, sups,
                   nCmds, execs, stage>>

\* The user runs down on the manifest once up has returned
ComposeDown ==
    /\ up.pc = "done"
    /\ down.pc \in {"idle", "done"}
    /\ \A p \in Procs : cli[p].pc = "idle"
    /\ down' = [DownIdle EXCEPT !.pc = "start", !.file = TRUE,
                   !.services = DownManifest(Keys(up.services),
                       [i \in DOMAIN up.services |-> [build |-> FALSE, image |-> Null]])]
    /\ UNCHANGED <<host, restart, images, build, monitor, up, disk, units, nextCid, cli, sups,
                   nCmds, execs, stage>>

\* The user runs up again once the last command has returned
ComposeUp == down.pc \in {"idle", "done"} /\ UpAgain

MaxComposeServices == 1

\* up on an empty store, no monitor and no PID file: a manifest of at most
\* MaxComposeServices services, each with auto-update enabled or not.
InitCompose ==
    /\ state = [c \in {} |-> NoState] /\ nextCid = 1
    /\ roots = {}
    /\ bindDepth = [c \in CIDs |-> 0]
    /\ procDepth = [c \in CIDs |-> 0]
    /\ units = [u \in {} |-> [cid |-> Null, active |-> FALSE]]
    /\ cli = [p \in Procs |-> IdleCli]
    /\ sups = <<>>
    /\ HostIdle
    /\ nCmds = 0
    /\ execs = [c \in CIDs |-> 0]
    /\ stage = [c \in CIDs |-> "none"]
    /\ CmdsIdle
    /\ \E keys \in KeyOrders(ServiceNames(MaxComposeServices), MaxComposeServices) :
       \E au \in [DOMAIN keys -> BOOLEAN] :
          up = [UpIdle EXCEPT !.pc = "start", !.ups = 1,
                   !.services = ComposeManifest(keys, au)]

ComposeStep(p) ==
    \/ UpNoServices \/ UpOrdered
    \/ UpSkipImage \/ UpExisting \/ UpRun
    \/ UpRunBegin(p)
    \/ RunCreate(p) \/ RunSpawn(p) \/ RunWait(p)
    \/ UpRunReturned(p)
    \/ UpDone \/ UpMonitorActive \/ UpMonitorSpawn \/ UpMonitorPidWrite
    \/ MonitorEnds
    \/ ComposeDown
    \/ DownStart \/ DownSkip \/ DownStop \/ DownServicesDone \/ DownRmiNone
    \/ DownStopLoad(p) \/ StopSave(p) \/ DownStopReturned(p)
    \/ DownRmLoad(p)
    \/ RmStopLoad(p) \/ RmStopSave(p) \/ RmUmount(p) \/ RmRmtree(p) \/ RmRemoveState(p)
    \/ DownRmReturned(p)
    \/ ComposeUp

ComposeSup ==
    \E i \in 1..MaxSups :
        \/ SupLoadMissing(i) \/ SupLoad(i)
        \/ SupPortsNone(i)
        \/ SupRunning(i) \/ SupMount(i) \/ SupSaveMounts(i)
        \/ SupEntrypointExit(i)
        \/ SupReloadMissing(i) \/ SupReload(i)
        \/ SupExit(i)

NextCompose == ComposeStep("cli1") \/ ComposeSup

SpecCompose == InitCompose /\ [][NextCompose]_vars

\* ======================================================== build context
\* The instruction file of a build context as the build command (lbox.py,
\* lines 1068-1069) and the monitor's local check (lines 1005-1011) choose
\* it. context.files: name -> the revision of the file's content, 0 when
\* the file does not exist; context.read: the file and revision build
\* parsed last; context.hashed: the file and revision the monitor hashed
\* last.
MaxRevisions == 3

\* line 1068: <path>/lbox if it exists, else <path>/app.lbox
build_file(files) == IF files["lbox"] # 0 THEN "lbox" ELSE "app.lbox"

\* lines 1006-1007: <build_path>/app.lbox, and <build_path>/lbox if that
\* does not exist
monitor_file(files) == IF files["app.lbox"] # 0 THEN "app.lbox" ELSE "lbox"

\* The file as it is opened: nothing when it does not exist (lines 1069
\* and 1009)
Opened(files, f) == IF files[f] # 0 THEN [file |-> f, rev |-> files[f]] ELSE NoFile

\* The user writes an instruction file (a new file or a new content)
ContextEdit ==
    /\ \E f \in FileNames :
          /\ context.files[f] < MaxRevisions
          /\ context' = [context EXCEPT !.files[f] = @ + 1]
    /\ UNCHANGED <<profile, hostFiles, compose, network, etc_hosts, cmds, up, disk, units,
                   nextCid, cli, sups, nCmds, execs, stage>>

\* lines 1068-1079: build chooses its file and parses it
ContextBuild ==
    /\ context' = [context EXCEPT !.read = Opened(context.files, build_file(context.files))]
    /\ UNCHANGED <<profile, hostFiles, compose, network, etc_hosts, cmds, up, disk, units,
                   nextCid, cli, sups, nCmds, execs, stage>>

\* lines 1005-1011: the monitor chooses its file and hashes it
ContextMonitor ==
    /\ context' = [context EXCEPT
                      !.hashed = Opened(context.files, monitor_file(context.files))]
    /\ UNCHANGED <<profile, hostFiles, compose, network, etc_hosts, cmds, up, disk, units,
                   nextCid, cli, sups, nCmds, execs, stage>>

\* A build context with any of the two files
InitContext ==
    /\ state = [c \in {} |-> NoState] /\ nextCid = 1
    /\ roots = {}
    /\ bindDepth = [c \in CIDs |-> 0]
    /\ procDepth = [c \in CIDs |-> 0]
    /\ units = [u \in {} |-> [cid |-> Null, active |-> FALSE]]
    /\ cli = [p \in Procs |-> IdleCli]
    /\ sups = <<>>
    /\ nCmds = 0
    /\ execs = [c \in CIDs |-> 0]
    /\ stage = [c \in CIDs |-> "none"]
    /\ up = UpIdle
    /\ CmdsIdle
    /\ profile = [c \in CIDs |-> {}]
    /\ hostFiles = TRUE
    /\ pid_file = 0
    /\ monitors = <<>>
    /\ network = NetworkIdle
    /\ etc_hosts = [n \in {} |-> {}]
    /\ \E files \in [FileNames -> 0..1] :
          context = [ContextIdle EXCEPT !.files = files]

NextContext == ContextEdit \/ ContextBuild \/ ContextMonitor

SpecContext == InitContext /\ [][NextContext]_vars

\* ============================================================== network
\* The network set-up of create up (lbox_create.py, lines 153-179) on
\* either backend, after the loop over the services has filled
\* container_ids. network.addr: the address each container has;
\* network.resolved: the services for which get_container_ip has returned
\* a usable address; network.i: the iterations of the polling loop that
\* were run. (On Windows a command run in a registered distribution is
\* taken to succeed.)
PollIterations == 10
IPs == {"172.20.0.2", "172.20.0.3"}
Backends == {"linux", "windows"}

\* get_container_ip (lbox.py, lines 286-328): each of the three probes is
\* made on Windows only; probe is what they find there (Null: all three
\* fail); the fallback is 127.0.0.1
get_container_ip(backend, probe) ==
    IF backend = "windows" /\ probe # Null THEN probe ELSE "127.0.0.1"

\* hosts_map[hostname] = ip
Put(m, h, ip) == [x \in (DOMAIN m) \cup {h} |-> IF x = h THEN ip ELSE m[x]]

RECURSIVE PutAll(_, _, _)
PutAll(m, names, addr) ==
    IF names = {} THEN m
    ELSE LET n == CHOOSE x \in names : TRUE
         IN PutAll(Put(Put(m, n, addr[n]), container_name(n), addr[n]), names \ {n}, addr)

\* LinuxEngine.inject_hosts (lbox.py, lines 867-868)
inject_hosts_Pass(backend, eh, name, hosts_map) == eh

\* WindowsEngine.inject_hosts (lbox.py, lines 687-694): one line per entry
\* of hosts_map is appended to /etc/hosts; LinuxEngine.inject_hosts (lines
\* 867-868): pass
inject_hosts(backend, eh, name, hosts_map) ==
    IF backend = "windows"
    THEN [eh EXCEPT ![name] = @ \cup {<<h, hosts_map[h]>> : h \in DOMAIN hosts_map}]
    ELSE eh

\* lines 156-171: one iteration of 'for i in range(10)': every container is
\* asked for its address; an address other than 127.0.0.1 is entered under
\* the service's name and under <project>_<service>; the loop ends when all
\* were found, and after the tenth iteration
NetworkPoll ==
    /\ network.pc = "poll"
    /\ network.i < PollIterations
    /\ \E probes \in [network.container_ids -> BOOLEAN] :
          LET ip(n) == get_container_ip(network.backend,
                                        IF probes[n] THEN network.addr[n] ELSE Null)
              found == {n \in network.container_ids : ip(n) # "127.0.0.1"}
              all_found == found = network.container_ids
          IN network' = [network EXCEPT
                            !.hosts_map = PutAll(@, found, network.addr),
                            !.resolved = @ \cup found,
                            !.i = @ + 1,
                            !.pc = IF all_found \/ network.i + 1 = PollIterations
                                   THEN "inject" ELSE "poll",
                            !.k = 1]
    /\ UNCHANGED <<profile, hostFiles, compose, context, etc_hosts, cmds, up, disk, units,
                   nextCid, cli, sups, nCmds, execs, stage>>

\* lines 174-177: eng.inject_hosts(cid, hosts_map) for the next service
\* that has a container
NetworkInject ==
    /\ network.pc = "inject"
    /\ network.k \in DOMAIN network.services
    /\ LET name == network.services[network.k]
       IN etc_hosts' = IF name \in network.container_ids
                       THEN inject_hosts(network.backend, etc_hosts, name, network.hosts_map)
                       ELSE etc_hosts
    /\ network' = [network EXCEPT !.k = @ + 1]
    /\ UNCHANGED <<profile, hostFiles, compose, context, cmds, up, disk, units,
                   nextCid, cli, sups, nCmds, execs, stage>>

\* line 179: Network Ready.
NetworkDone ==
    /\ network.pc = "inject"
    /\ network.k > Len(network.services)
    /\ network' = [network EXCEPT !.pc = "done"]
    /\ UNCHANGED <<profile, hostFiles, compose, context, etc_hosts, cmds, up, disk, units,
                   nextCid, cli, sups, nCmds, execs, stage>>

\* The network set-up begins: a backend, the services in start order, those
\* that have a container, and the address of each container.
InitNetwork ==
    /\ state = [c \in {} |-> NoState] /\ nextCid = 1
    /\ roots = {}
    /\ bindDepth = [c \in CIDs |-> 0]
    /\ procDepth = [c \in CIDs |-> 0]
    /\ units = [u \in {} |-> [cid |-> Null, active |-> FALSE]]
    /\ cli = [p \in Procs |-> IdleCli]
    /\ sups = <<>>
    /\ nCmds = 0
    /\ execs = [c \in CIDs |-> 0]
    /\ stage = [c \in CIDs |-> "none"]
    /\ up = UpIdle
    /\ CmdsIdle
    /\ profile = [c \in CIDs |-> {}]
    /\ hostFiles = TRUE
    /\ pid_file = 0
    /\ monitors = <<>>
    /\ context = ContextIdle
    /\ \E backend \in Backends :
       \E keys \in KeyOrders(ServiceNames(MaxUpServices), MaxUpServices) :
       \E ids \in SUBSET {keys[i] : i \in DOMAIN keys} :
       \E addr \in [ids -> IPs] :
          /\ network = [NetworkIdle EXCEPT !.pc = "poll", !.backend = backend,
                           !.services = keys, !.container_ids = ids, !.addr = addr,
                           !.hosts_map = [h \in {} |-> Null]]
          /\ etc_hosts = [n \in ids |-> {}]

NextNetwork == NetworkPoll \/ NetworkInject \/ NetworkDone

SpecNetwork == InitNetwork /\ [][NextNetwork]_vars

\* =============================================================== fabric
\* The port-forwarding fabric of a supervisor with the connections made to
\* it (lbox.py, tcp_proxy, lines 373-388, and handle_connection_retry, lines
\* 405-433): one container that publishes the host port, one connection
\* per supervisor. The threads of the supervisor are scheduled fairly; the
\* peers of a connection close it when they choose to, or never.
FabricArgs ==
    [name : {Null}, ports : {<<HostPort>>}, volumes : {<<>>},
     restart : {"no", "always"}, as_service : {FALSE}, cmd : {Null}]

\* lines 382-385 and 406-431: the accept loop (which looks at the stop
\* event once a second) accepts a client, the handler connects to the
\* container port and starts the two forwarders
ProxyAccept(i) ==
    /\ i \in DOMAIN sups
    /\ sups[i].proxy \in {"bound", "stopping"}
    /\ sups[i].conn = "none"
    /\ sups' = [sups EXCEPT ![i].conn = "open"]
    /\ UNCHANGED <<host, cmds, up, disk, units, nextCid, cli, nCmds, execs, stage>>

\* lines 406-417: the five attempts to connect to the container port fail;
\* the client socket is closed
ProxyAcceptNoTarget(i) ==
    /\ i \in DOMAIN sups
    /\ sups[i].proxy \in {"bound", "stopping"}
    /\ sups[i].conn = "none"
    /\ sups' = [sups EXCEPT ![i].conn = "closed"]
    /\ UNCHANGED <<host, cmds, up, disk, units, nextCid, cli, nCmds, execs, stage>>

\* The client or the process in the container closes its end of the
\* connection.
PeerCloses(i) ==
    /\ i \in DOMAIN sups
    /\ sups[i].conn = "open"
    /\ sups' = [sups EXCEPT ![i].conn = "half"]
    /\ UNCHANGED <<host, cmds, up, disk, units, nextCid, cli, nCmds, execs, stage>>

\* forward, lines 419-427: recv returns no data (or raises), the forwarder
\* closes both sockets, which ends the other forwarder in the same way
ForwardersClose(i) ==
    /\ i \in DOMAIN sups
    /\ sups[i].conn = "half"
    /\ sups' = [sups EXCEPT ![i].conn = "closed"]
    /\ UNCHANGED <<host, cmds, up, disk, units, nextCid, cli, nCmds, execs, stage>>

\* lines 432-433: the forwarders have ended; the process that was joining
\* them ends
SupJoined(i) ==
    /\ i \in DOMAIN sups
    /\ sups[i].pc = "joining"
    /\ sups[i].conn \notin {"open", "half"}
    /\ sups' = [sups EXCEPT ![i] = DeadSup(sups[i].cid)]
    /\ UNCHANGED <<host, cmds, up, disk, units, nextCid, cli, nCmds, execs, stage>>

FabricCli(p) ==
    \/ RunBegin(p, FabricArgs, MaxLifeContainers)
    \/ RunCreate(p) \/ RunSpawn(p) \/ RunWait(p)

\* The steps of the supervisor's own threads
FabricThreads(i) ==
    \/ SupLoad(i) \/ SupPortsOk(i) \/ SupPortsFail(i) \/ SupProxyBind(i)
    \/ SupRunning(i) \/ SupMount(i) \/ SupSaveMounts(i)
    \/ ProxyClose(i) \/ ForwardersClose(i)
    \/ SupReload(i) \/ SupRestart(i) \/ SupExit(i) \/ SupJoined(i)

\* What the container's process and the clients do
FabricPeers(i) ==
    \/ SupEntrypointExit(i)
    \/ ProxyAccept(i) \/ ProxyAcceptNoTarget(i)
    \/ PeerCloses(i)

NextFabric ==
    \/ FabricCli("cli1")
    \/ \E i \in 1..MaxSups : FabricThreads(i) \/ FabricPeers(i)

SpecFabric ==
    /\ Init /\ [][NextFabric]_vars
    /\ WF_vars(FabricCli("cli1"))
    /\ \A i \in 1..MaxSups : WF_vars(FabricThreads(i))

\* ================================================================ claims
\* Helpers of the claims' formulas.
Records == DOMAIN state
LiveSups(c) == {i \in DOMAIN sups : Alive(i) /\ sups[i].cid = c}
Quiet(c) == LiveSups(c) = {} /\ \A p \in Procs : cli[p].pc = "idle"
\* A stop or rm has stopped the service of container c (systemctl stop,
\* systemctl disable --now) and has not yet written status exited.
StoppingService(c) ==
    \E p \in Procs :
        \/ /\ cli[p].pc \in {"stop_save", "rm_stop_save"}
           /\ cli[p].t.id = c /\ cli[p].t.service_enabled
        \/ /\ cli[p].pc = "rm_stop"
           /\ cli[p].s.id = c /\ cli[p].s.service_enabled
\* The port mappings a record lists
PortsOf(s) == {s.ports[k] : k \in DOMAIN s.ports}
\* A step of supervisor i itself (not a kill by systemctl, which a CLI step does)
OwnStep(i) == sups'[i].pc # sups[i].pc /\ cli' = cli

\* C1: while a record exists, its persisted status only moves along (stop
\* may write exited from any status before exited)
\* starting -> running -> (restarting -> running)* -> exited, and error is
\* entered only from starting, whatever the interleaving of the supervisor's
\* writes with those of run (service registration included) and stop.
C1_StatusFollowsPath ==
    [][\A c \in Records \cap DOMAIN state' :
          state'[c].status # state[c].status =>
              <<state[c].status, state'[c].status>> \in
                  {<<"starting", "running">>, <<"starting", "error">>,
                   <<"starting", "exited">>,
                   <<"running", "restarting">>, <<"running", "exited">>,
                   <<"restarting", "running">>, <<"restarting", "exited">>}]_vars

\* C2: once a record's persisted status is exited, no later write changes
\* it to another status until the record is removed.
C2_ExitedIsSticky ==
    [][\A c \in Records \cap DOMAIN state' :
          state[c].status = "exited" => state'[c].status = "exited"]_vars

\* C3: the restart_count stored in a record never decreases from one
\* observation of the record to the next. Stated for records outside
\* service mode, where the only writers are the supervisor and CLI stop.
C3_RestartCountMonotonic ==
    [][\A c \in Records \cap DOMAIN state' :
          ~state[c].service_enabled =>
              state'[c].restart_count >= state[c].restart_count]_vars

\* C4: no two records of the state store have the same non-null name, also
\* when two run commands asking for the same name execute concurrently.
C4_NamesUnique ==
    \A c, d \in Records :
        (c # d /\ state[c].name # Null) => state[c].name # state[d].name

C6_RecordIffRoot ==
    [][\A p \in Procs :
          (cli[p].pc \in {"run_create", "run_spawn", "run_wait", "rm_remove"}
              /\ cli'[p].pc = "idle")
          => DOMAIN state' = roots']_vars

\* C7: after run; stop; rm on a container has completed and its supervisor
\* has quiesced, no state file for that id exists.
C7_NoStateFileAfterRm ==
    \A c \in CIDs : (stage[c] = "removed" /\ Quiet(c)) => c \notin Records

\* C8: rm unmounts every bind mount the supervisor made across all of its
\* restart iterations. Stated at rm's umount step, in the case where the
\* supervisor is gone and the record rm loaded lists the mounts: after
\* the step no bind mount remains under the root.
C8_NoMountAfterRm ==
    [][\A p \in Procs :
          (/\ cli[p].pc = "rm_umount" /\ cli'[p].pc = "rm_rmtree"
           /\ cli[p].s.mounts # <<>>
           /\ LiveSups(cli[p].s.id) = {})
          => bindDepth'[cli[p].s.id] = 0]_vars

\* C9: with restart policy no the entrypoint is executed at most once and
\* restart_count stays 0, also for a container registered as a host service.
C9_PolicyNoNeverRestarts ==
    \A c \in Records :
        state[c].restart = "no" => (execs[c] <= 1 /\ state[c].restart_count = 0)

\* C10 as stated: with restart policy always, every time the entrypoint has
\* exited and the supervisor has read the record again, it takes the
\* restart branch, whatever the exit code and the record's status.
C10_AlwaysRestartsWhateverStatus ==
    [][\A i \in DOMAIN sups :
          (sups[i].pc = "decide" /\ sups[i].s.restart = "always" /\ OwnStep(i))
          => sups'[i].pc = "load"]_vars

\* C10 as amended: with restart policy always, every time the entrypoint
\* has exited and the record read afterwards has a status other than
\* exited, the supervisor takes the restart branch whatever the exit code
\* (restart_count + 1 and status restarting are saved, the loop starts
\* over); when that status is exited it saves exited and returns.
C10_AlwaysRestartsUnlessExited ==
    [][\A i \in DOMAIN sups :
          (sups[i].pc = "decide" /\ sups[i].s.restart = "always" /\ OwnStep(i))
          => IF sups[i].s.status # "exited"
             THEN /\ sups'[i].pc = "load"
                  /\ sups[i].cid \in DOMAIN state'
                  /\ state'[sups[i].cid].status = "restarting"
                  /\ state'[sups[i].cid].restart_count = sups[i].s.restart_count + 1
             ELSE sups'[i].pc = "dead"]_vars

\* C10 witness: a supervisor has just taken the restart branch under policy
\* always after an exit code of 0.
C10_Witness ==
    \E i \in DOMAIN sups :
        /\ sups[i].pc = "load" /\ sups[i].s.status = "restarting"
        /\ sups[i].s.restart = "always" /\ sups[i].exit_code = 0
        /\ sups[i].s.restart_count >= 1


\* C11 as stated: with restart policy on-failure the supervisor takes the
\* restart branch if and only if the entrypoint's exit code is non-zero.
C11_OnFailureRestartsIffNonZero ==
    [][\A i \in DOMAIN sups :
          (sups[i].pc = "decide" /\ sups[i].s.restart = "on-failure" /\ OwnStep(i))
          => (sups'[i].pc = "load" <=> sups[i].exit_code # 0)]_vars

\* C11 as amended: with restart policy on-failure the supervisor takes the
\* restart branch (restart_count + 1 and status restarting saved, the loop
\* starts over) if and only if the exit code is non-zero and the status of
\* the record read after the exit is not exited; otherwise it saves status
\* exited and returns.
C11_OnFailureRestartsIffNonZeroAndNotExited ==
    [][\A i \in DOMAIN sups :
          (sups[i].pc = "decide" /\ sups[i].s.restart = "on-failure" /\ OwnStep(i))
          => IF sups[i].exit_code # 0 /\ sups[i].s.status # "exited"
             THEN /\ sups'[i].pc = "load"
                  /\ sups[i].cid \in DOMAIN state'
                  /\ state'[sups[i].cid].status = "restarting"
                  /\ state'[sups[i].cid].restart_count = sups[i].s.restart_count + 1
             ELSE /\ sups'[i].pc = "dead"
                  /\ sups[i].cid \in DOMAIN state'
                  /\ state'[sups[i].cid].status = "exited"
                  /\ state'[sups[i].cid].restart_count = sups[i].s.restart_count]_vars

\* C11 witness: a supervisor has just taken the restart branch under policy
\* on-failure after exit code 1.
C11_Witness ==
    \E i \in DOMAIN sups :
        /\ sups[i].pc = "load" /\ sups[i].s.status = "restarting"
        /\ sups[i].s.restart = "on-failure" /\ sups[i].exit_code = 1
        /\ sups[i].s.restart_count >= 1

\* C12: with restart policy unless-stopped the supervisor takes the restart
\* branch if and only if the status of the record it read after the
\* entrypoint exited is not exited, whatever the exit code.
C12_UnlessStoppedRestartsIffNotExited ==
    [][\A i \in DOMAIN sups :
          (sups[i].pc = "decide" /\ sups[i].s.restart = "unless-stopped" /\ OwnStep(i))
          => IF sups[i].s.status # "exited"
             THEN /\ sups'[i].pc = "load"
                  /\ sups[i].cid \in DOMAIN state'
                  /\ state'[sups[i].cid].status = "restarting"
                  /\ state'[sups[i].cid].restart_count = sups[i].s.restart_count + 1
             ELSE sups'[i].pc = "dead"]_vars

\* C12 witness: a supervisor has just taken the restart branch under policy
\* unless-stopped after exit code 0.
C12_Witness ==
    \E i \in DOMAIN sups :
        /\ sups[i].pc = "load" /\ sups[i].s.status = "restarting"
        /\ sups[i].s.restart = "unless-stopped" /\ sups[i].exit_code = 0
        /\ sups[i].s.restart_count >= 1


\* C13: after a CLI stop has completed on a container whose supervisor is
\* alive, the supervisor eventually exits and the record's status is exited.
C13_StopEndsSupervisor ==
    \A c \in CIDs :
        (stage[c] = "stopped" /\ LiveSups(c) # {})
            ~> (LiveSups(c) = {} /\ c \in Records /\ state[c].status = "exited")


\* C14: while a record listing host port P exists, a run that requests P
\* never passes its checks (it reports the port as taken and creates no
\* record), at whatever point of the first container's life it is issued.
C14_PortOfExistingRecordIsRefused ==
    [][\A p \in Procs :
          (cli[p].pc = "idle" /\ cli'[p].pc = "run_create")
          => \A c \in Records : PortsOf(state[c]) \cap PortsOf(cli'[p].s) = {}]_vars


\* C15: for every state file, the id field of the record it holds equals
\* the file's stem, and no two files hold the same id.
C15_IdMatchesFileStem ==
    /\ \A c \in Records : state[c].id = c
    /\ \A c, d \in Records : c # d => state[c].id # state[d].id


\* C16 as stated: lookup of x returns the record whose id is x if a state
\* file holds one, otherwise a record whose name is x if a file holds one,
\* otherwise nothing.
C16_LookupByIdThenName ==
    \A p \in Procs :
        cli[p].pc \in {"found", "not_found"} =>
            LET x == cli[p].ident
                byId == {s \in iter_states(state) : s.id = x}
                byName == {s \in iter_states(state) : s.name = x}
            IN IF byId # {} THEN cli[p].pc = "found" /\ cli[p].s \in byId
               ELSE IF byName # {} THEN cli[p].pc = "found" /\ cli[p].s \in byName
               ELSE cli[p].pc = "not_found"

\* C16 as amended: lookup of x returns the record held by the file whose
\* stem is x if that file exists (nothing if it does not parse, and the id
\* field is not consulted), otherwise a record whose name is x from the
\* files that parse, otherwise nothing; a file-stem match always takes
\* precedence over a name match.
C16_LookupByStemThenName ==
    \A p \in Procs :
        cli[p].pc \in {"found", "not_found"} =>
            LET x == cli[p].ident
                byName == {s \in iter_states(state) : s.name = x}
            IN IF x \in DOMAIN state
               THEN IF state[x] = Unparsable THEN cli[p].pc = "not_found"
                    ELSE cli[p].pc = "found" /\ cli[p].s = state[x]
               ELSE IF byName # {} THEN cli[p].pc = "found" /\ cli[p].s \in byName
               ELSE cli[p].pc = "not_found"

\* C16 witness: a lookup of x returned the record of file x while another
\* file holds a record whose name is x.
C16_Witness ==
    \E p \in Procs :
        /\ cli[p].pc = "found" /\ cli[p].ident \in DOMAIN state
        /\ cli[p].s = state[cli[p].ident] /\ cli[p].s.id = cli[p].ident
        /\ \E d \in DOMAIN state \ {cli[p].ident} :
               state[d] # Unparsable /\ state[d].name = cli[p].ident

\* The depends_on graph of a services mapping: the names reachable from the
\* set S along at most n depends_on edges.
RECURSIVE DependsOnWithin(_, _, _)
DependsOnWithin(services, S, n) ==
    IF n = 0 THEN S
    ELSE DependsOnWithin(services,
             S \cup UNION {Svc(services, x).depends_on : x \in S \cap Defined(services)}, n - 1)
OnCycle(services, name) ==
    name \in DependsOnWithin(services, Svc(services, name).depends_on, Len(services))
Acyclic(services) == \A name \in Defined(services) : ~OnCycle(services, name)
OnlyDefined(services) ==
    \A i \in DOMAIN services : services[i].depends_on \subseteq Defined(services)
\* every depends_on is a list or a mapping, as the manifest format has it
WellTyped(services) == \A i \in DOMAIN services : services[i].deps_ok

\* C17: for every manifest (depends_on lists or mappings) whose depends_on
\* graph is acyclic and references only defined services, the start order
\* up computes contains every service exactly once and places each service
\* after all the services it depends on.
C17_StartOrderIsTopological ==
    (/\ up.pc # "start" /\ up.services # <<>>
     /\ WellTyped(up.services) /\ OnlyDefined(up.services) /\ Acyclic(up.services))
    => LET order == up.ordered_services
       IN /\ up.error = "none"
          /\ Len(order) = Len(up.services)
          /\ \A name \in Defined(up.services) :
                Cardinality({i \in DOMAIN order : order[i] = name}) = 1
          /\ \A i \in DOMAIN order :
                \A dep \in Svc(up.services, order[i]).depends_on :
                    \E j \in 1..(i - 1) : order[j] = dep

\* C17 witness: a chain of three services written in the reverse of its
\* dependency order has been ordered (it takes three passes).
C17_Witness ==
    /\ up.pc = "loop"
    /\ Len(up.services) = 3
    /\ up.services[1].depends_on = {up.services[2].name}
    /\ up.services[2].depends_on = {up.services[3].name}
    /\ up.services[3].depends_on = {}
    /\ up.ordered_services =
           <<up.services[3].name, up.services[2].name, up.services[1].name>>

\* C18: when the depends_on graph of the manifest (depends_on lists or
\* mappings) contains a cycle, a self-dependency included, or a reference
\* to an undefined service, up ends in a usage error before it starts,
\* stops or removes any container, with --remove-orphans too: no command
\* of the engine was issued, no supervisor exists and every record that was
\* there is still there. The message for an undefined reference names one
\* referring service and the undefined names it lists; the message for a
\* cycle names at least every service on a cycle.
C18_BadGraphIsUsageErrorBeforeAnyEffect ==
    LET m == up.services
        unknown(name) == Svc(m, name).depends_on \ Defined(m)
    IN (WellTyped(m) /\ (~OnlyDefined(m) \/ ~Acyclic(m)))
       => /\ up.pc \in {"start", "usage_error"}
          /\ nCmds = 0 /\ sups = <<>> /\ roots = {}
          /\ \A p \in Procs : cli[p].pc = "idle"
          /\ Cardinality(DOMAIN state) = nextCid - 1
          /\ up.pc = "usage_error" =>
                IF ~OnlyDefined(m)
                THEN /\ up.error = "undefined"
                     /\ \E name \in Defined(m) :
                           unknown(name) # {} /\ up.named = {name} \cup unknown(name)
                ELSE /\ up.error = "cyclic"
                     /\ {name \in Defined(m) : OnCycle(m, name)} \subseteq up.named
                     /\ up.named \subseteq Defined(m)

\* C18 witness: up --remove-orphans has ended in the usage error for a
\* cycle while an orphan of the project is in the store.
C18_Witness ==
    /\ up.pc = "usage_error" /\ up.error = "cyclic"
    /\ up.remove_orphans
    /\ \E s \in iter_states(state) :
          s.name \notin {container_name(n) : n \in Defined(up.services)}

\* C19: during up, a service is started (its supervisor is spawned by the
\* eng.run that up called) only when every service it depends on has a
\* container record whose status is past starting and is not error, which
\* every container that has reached status running has.
C19_StartedAfterDependenciesRan ==
    [][(/\ up.pc = "run"
        /\ cli["cli1"].pc = "run_spawn" /\ cli'["cli1"].pc = "run_wait")
       => \A dep \in Svc(up.services, UpName).depends_on :
             \E s \in iter_states(state) :
                /\ s.name = container_name(dep)
                /\ s.status \notin {"starting", "error"}]_vars

\* C20 as stated: when up has been run twice in succession with the same
\* manifest and the same options (no --force-recreate), the set of
\* container records (ids and names) at the end of the second up equals
\* the set at the end of the first.
C20_SecondUpLeavesRecordSet ==
    (up.ups = 2 /\ up.pc = "done") => RecordSet = up.after_first

\* C20 amended: the second up leaves every record that was there at the
\* end of the first in place, with its id and name, and the records it
\* adds are of services of the manifest that had no record at the end of
\* the first up; so the two sets are equal whenever the first up left a
\* record for every service.
C20_SecondUpKeepsRecordsAndAddsMissing ==
    LET named(R) == {r[2] : r \in R}
        defined == {container_name(n) : n \in Defined(up.services)}
    IN up.ups = 2
       => /\ up.after_first \subseteq RecordSet
          /\ \A r \in RecordSet \ up.after_first :
                r[2] \in defined /\ r[2] \notin named(up.after_first)
          /\ defined \subseteq named(up.after_first) => RecordSet = up.after_first

\* C20 witness: the second up of a manifest of two services has ended, both
\* services had their record at the end of the first up and the record set
\* is the same.
C20_Witness ==
    /\ up.ups = 2 /\ up.pc = "done"
    /\ Len(up.services) = 2
    /\ {container_name(n) : n \in Defined(up.services)} = {r[2] : r \in up.after_first}
    /\ RecordSet = up.after_first

\* C27: in every persisted state of a record, service_enabled implies that
\* service_name is not null.
C27_ServiceEnabledHasServiceName ==
    \A c \in Records : state[c].service_enabled => state[c].service_name # Null

\* C28: the supervisor writes status error only on its first loop
\* iteration, while the record is still starting: whenever a step moves a
\* record's persisted status to error, the status before was starting (on
\* a restart iteration it is restarting).
C28_ErrorOnlyFromStarting ==
    [][\A c \in Records :
          (c \in DOMAIN state' /\ state'[c].status = "error" /\ state[c].status # "error")
          => state[c].status = "starting"]_vars

\* C29: a container never runs with a declared port mapping that has no
\* bound listener: while a supervisor has written status running and its
\* entrypoint runs, the listener of the mapping its record declares is bound
\* (a failed bind would have ended the supervisor with status error).
C29_RunningHasBoundListener ==
    \A i \in DOMAIN sups :
        (sups[i].pc \in {"mount", "save_mounts", "exec"} /\ sups[i].s.ports # <<>>)
        => sups[i].proxy = "bound"

\* C30: on every path by which the supervisor leaves a loop iteration or
\* exits, by a step of its own, the stop event created in that iteration
\* has been set.
C30_StopSetOnEveryExitPath ==
    [][\A i \in DOMAIN sups :
          (OwnStep(i) /\ sups'[i].pc \in {"load", "dead"}) => sups[i].stop # "clear"]_vars

\* C30 amended: on every path that has passed the entrypoint's launch
\* (normal exit, restart, crash of the launch, record missing when it is
\* read again) the stop event of the iteration has been set; on a
\* port-forwarding setup failure the supervisor returns with the event
\* still clear and its process exit ends the listener threads; when the
\* record is missing at the top of the first iteration no event exists.
C30_StopSetAfterEntrypoint ==
    [][\A i \in DOMAIN sups :
          (OwnStep(i) /\ sups'[i].pc \in {"load", "dead"})
          => \/ sups[i].pc \in {"reload", "decide"} /\ sups[i].stop = "set"
             \/ sups[i].pc = "ports" /\ sups[i].stop = "clear" /\ sups'[i].pc = "dead"
             \/ sups[i].pc = "load" /\ sups[i].stop # "clear" /\ sups'[i].pc = "dead"]_vars

\* C30 witness: a supervisor whose entrypoint has exited on a restart
\* iteration has set the stop event and its listener is closing.
C30_Witness ==
    \E i \in DOMAIN sups :
        /\ sups[i].pc = "decide" /\ sups[i].stop = "set"
        /\ sups[i].proxy = "stopping" /\ sups[i].s.restart_count > 0

\* C25: after the restart command on an existing container has completed, a
\* container record exists with the name, image, ports, volumes, command,
\* working directory and restart policy the record had before the restart.
SameConfig(s, c) ==
    /\ s.name = c.name /\ s.image = c.image
    /\ s.ports = c.ports /\ s.volumes = c.volumes
    /\ s.command = c.command /\ s.workdir = c.workdir
    /\ s.restart = c.restart

C25_RestartKeepsConfiguration ==
    restart.pc = "done" => \E c \in DOMAIN state : SameConfig(state[c], restart.config)

\* C21: after create down has completed, no record whose name begins with
\* the project prefix remains in the state store.
C21_NoProjectRecordAfterDown ==
    down.pc = "done" => list_project_containers(state) = {}

\* C22: after create down --rmi=local no image artifact (archive or sidecar)
\* remains for a service that has a build section, and the artifacts of the
\* image of a service without a build section are never touched; after
\* create down --rmi=all no image artifact remains for any service.
RmiTargets ==
    {i \in DOMAIN down.services : down.rmi = "all" \/ down.services[i].build}

RmiSpared ==
    {i \in DOMAIN down.services : down.rmi = "local" /\ ~down.services[i].build}

C22_RmiRemovesArtifacts ==
    /\ [](down.pc = "done" /\ down.rmi # "none"
            => \A i \in RmiTargets : images[image_tag(down.services[i])] = NoArtifacts)
    /\ [][\A i \in RmiSpared :
             images'[image_tag(down.services[i])] = images[image_tag(down.services[i])]]_vars

\* C26: when a build step fails or the base image is missing, the scratch
\* root is destroyed, the command ends with a non-success status, and
\* neither <tag>.tar nor <tag>.json was created or modified by that build.
BuildFailedInStep == build.pc = "done" /\ build.failure \in {"base", "step"}

C26_FailedBuildIsSurfaced ==
    BuildFailedInStep
    => /\ ~build.root
       /\ build.rc # 0
       /\ images[build.tag] = build.before

\* C23: for each auto-update service, whatever the service names of the
\* manifest are, the first observation of the source's value triggers no
\* update, a later observation triggers an update if it differs from the
\* service's last observation, and an unchanged observation triggers none.
C23_UpdateIffChangedAfterFirst ==
    monitor.pc = "decided"
    => (monitor.should_update
          <=> (monitor.obs.previous # Null /\ monitor.obs.value # monitor.obs.previous))

\* C24: the monitor never terminates because of a failure during a check
\* or an update.
C24_MonitorNeverTerminates == monitor.pc # "exited"

\* C31: a record whose persisted status is running has every one of its
\* volumes bound inside the container root: the supervisor writes running
\* only after the bind mounts of the iteration have been applied.
C31_RunningOnlyAfterVolumesBound ==
    \A c \in Records :
        (state[c].status = "running" /\ state[c].volumes # <<>>)
            => bindDepth[c] > 0

\* C32: while the entrypoint of a supervisor iteration is being executed,
\* the profile under the container's root holds an export line for every
\* entry of the record's envs.
C32_EnvsExportedBeforeEntrypoint ==
    \A i \in DOMAIN sups :
        sups[i].pc = "exec" =>
            \A k \in DOMAIN sups[i].s.envs :
                sups[i].s.envs[k] \in profile[sups[i].cid]

\* The position of a service in the manifest and in a start order
PosIn(seq, name) == CHOOSE i \in DOMAIN seq : seq[i] = name

SetMax(S) == CHOOSE x \in S : \A y \in S : y <= x

\* The dependency rank of a service: the length of its longest depends_on
\* chain (0 for a service without dependencies)
RECURSIVE Rank(_, _)
Rank(m, name) ==
    LET deps == Svc(m, name).depends_on
    IN IF deps = {} THEN 0 ELSE 1 + SetMax({Rank(m, d) : d \in deps})

\* The pass of the while loop (lines 24-45) in which a service is appended:
\* the first pass for a service without dependencies; otherwise the latest
\* pass of its dependencies, one later for a dependency the manifest lists
\* after the service (at the service's turn that dependency is still
\* pending).
RECURSIVE PassOf(_, _)
PassOf(m, name) ==
    LET deps == Svc(m, name).depends_on
    IN IF deps = {} THEN 1
       ELSE SetMax({PassOf(m, d) +
                        (IF PosIn(Keys(m), d) > PosIn(Keys(m), name) THEN 1 ELSE 0) :
                    d \in deps})

Ordered ==
    /\ up.pc # "start" /\ up.services # <<>>
    /\ WellTyped(up.services) /\ OnlyDefined(up.services) /\ Acyclic(up.services)

\* C34 as stated: in the computed start order, any two services of the same
\* dependency rank appear in the same relative order as in the manifest.
C34_SameRankKeepsManifestOrder ==
    Ordered =>
        \A i, j \in DOMAIN up.services :
            (i < j /\ Rank(up.services, up.services[i].name)
                        = Rank(up.services, up.services[j].name))
            => PosIn(up.ordered_services, up.services[i].name)
                 < PosIn(up.ordered_services, up.services[j].name)

\* C34 amended: the start order lists the services pass by pass, and within
\* one pass in manifest order; a service is appended in the first pass at
\* whose turn all its dependencies are resolved, those resolved earlier in
\* the same pass included. Services without dependencies therefore keep
\* their manifest order.
C34_OrderIsByPassThenManifest ==
    Ordered =>
        \A i, j \in DOMAIN up.services :
            LET a == up.services[i].name
                b == up.services[j].name
            IN (\/ PassOf(up.services, a) < PassOf(up.services, b)
                \/ (PassOf(up.services, a) = PassOf(up.services, b) /\ i < j))
               => PosIn(up.ordered_services, a) < PosIn(up.ordered_services, b)

\* C34 witness: the first and the third service both depend on the second
\* one only (both of rank 1); the third one was appended in the first pass,
\* before the first one.
C34_Witness ==
    /\ up.pc = "loop"
    /\ Len(up.services) = 3
    /\ up.services[1].depends_on = {up.services[2].name}
    /\ up.services[2].depends_on = {}
    /\ up.services[3].depends_on = {up.services[2].name}
    /\ up.services[1].deps_ok /\ up.services[2].deps_ok /\ up.services[3].deps_ok
    /\ up.ordered_services =
           <<up.services[2].name, up.services[3].name, up.services[1].name>>

\* C35: during up --build no container exists for a service whose build
\* failed in that up (the store was empty when up began), whether or not
\* an archive of the tag was left by an earlier build.
C35_FailedBuildStartsNoContainer ==
    \A n \in up.failed : get_id_by_name(state, container_name(n)) = {}

\* C36: when the eng.run of a monitor update has returned (the update ran
\* without raising an error), a record named <project>_<service> exists.
C36_UpdateRecreatesContainer ==
    [][(monitor.pc = "run" /\ monitor'.pc = "services")
       => get_id_by_name(state', container_name(monitor.services[monitor.k].name)) # {}]_vars

\* The monitor processes that are alive
AliveMonitors == {pid \in DOMAIN monitors : monitors[pid]}

\* C37: when up has returned on a manifest in which some service has
\* auto-update enabled, the PID file names a monitor process that is alive;
\* and at any time at most one monitor of the project is alive.
C37_MonitorAliveAndRecordedAfterUp ==
    /\ (up.pc = "done" /\ \E i \in DOMAIN up.services : AutoUpdate(up.services[i]))
          => (pid_file # 0 /\ pid_file \in AliveMonitors)
    /\ Cardinality(AliveMonitors) <= 1

\* C38: when the build context holds both app.lbox and lbox, the file build
\* parses and the file the monitor hashes are the same file, app.lbox.
C38_BuilderAndMonitorSelectSameFile ==
    (/\ \A f \in FileNames : context.files[f] # 0
     /\ context.read = Opened(context.files, build_file(context.files))
     /\ context.hashed = Opened(context.files, monitor_file(context.files)))
    => /\ context.read.file = context.hashed.file
       /\ context.read.file = "app.lbox"

\* C39: when the network set-up of up is over, on either backend, for every
\* service that has a container and whose address was resolved, /etc/hosts
\* of every container of the project holds an entry for <service> and one
\* for <project>_<service> with that address; and the polling loop never
\* runs more than 10 iterations.
C39_HostsEntriesForResolvedServices ==
    /\ network.i <= PollIterations
    /\ network.pc = "done"
          => \A s \in network.resolved :
             \A c \in network.container_ids :
                 /\ <<s, network.addr[s]>> \in etc_hosts[c]
                 /\ <<container_name(s), network.addr[s]>> \in etc_hosts[c]

\* C39 witness: on Windows the loop has run its ten iterations, one of two
\* containers was resolved and the other was not, and the hosts file of the
\* unresolved one holds the entries of the resolved one.
C39_Witness ==
    /\ network.pc = "done" /\ network.backend = "windows"
    /\ network.i = PollIterations
    /\ \E s, c \in network.container_ids :
          /\ s \in network.resolved /\ c \notin network.resolved
          /\ <<s, network.addr[s]>> \in etc_hosts[c]
          /\ <<container_name(s), network.addr[s]>> \in etc_hosts[c]

\* C40: removing a container never deletes the files of a host directory
\* that was bound into it as a volume: whenever the root of a container is
\* deleted recursively no bind mount of a host path is left under it.
C40_RmNeverDeletesHostFiles == hostFiles

=============================================================================
